---- MODULE Spec2Model ----
(***************************************************************************)
(* Statly Observe SDK (statly-node): the HTTP Transport (src/transport.ts),*)
(* the client (StatlyClient) and the Statly facade (index.ts).             *)
(*                                                                         *)
(* JavaScript runs one task at a time; an async function runs             *)
(* synchronously up to its first await that has to wait.  Every action    *)
(* below is one such synchronous stretch: a host call up to the point it  *)
(* returns or suspends, a timer callback, or the continuation that runs   *)
(* when a fetch settles.                                                   *)
(***************************************************************************)
EXTENDS Naturals, Integers, Sequences, FiniteSets, TLC

VARIABLES
    hasWindow,  \* typeof window !== 'undefined' (browser-like host)
    tr,         \* the Transport objects constructed so far, by index
    calls,      \* the host's calls of async functions that have not settled
    nEv,        \* events built or handed over so far (the next event is nEv + 1)
    nSend,      \* Transport.send calls made
    last,       \* what the last step showed the host: the call and its result
    client,     \* the facade's module variable: index of the client, 0 for null
    cl,         \* the StatlyClient objects constructed so far, by index
    posts,      \* the requests the clients' transports have issued, in order
    nInit,      \* Statly.init calls made
    nCap,       \* captures made (capture calls, uncaught errors)
    nFlush,     \* Statly.flush calls made
    nClose,     \* Statly.close calls made
    nSet,       \* setUser, setTag, setTags, addBreadcrumb calls made
    tel,        \* the TelemetryProvider singleton, TraceContext and the Spans
    lg          \* the Loggers, their Destinations and Scrubbers, by index

facadeVars == <<client, cl, posts, nInit, nCap, nFlush, nClose, nSet, tel>>
vars == <<hasWindow, tr, calls, nEv, nSend, last, facadeVars, lg>>

----------------------------------------------------------------------------
(* Bounds of the model *)

MaxEnqueues == 112      \* events handed to the Transport of SpecQ and SpecE
MaxEvents == 12         \* events handed to the Transport of SpecT
MaxDirectSends == 1     \* Transport.send calls in SpecT
MaxCalls == 6           \* calls of facade functions in Spec
MaxCallsH == 4          \* calls of facade functions in SpecH
MaxCallsC == 4          \* calls of facade functions in SpecC
MaxCallsU == 5          \* calls of facade functions in SpecU
MaxLimit == 3           \* largest maxBreadcrumbs in SpecB
MaxAdds == 5            \* BreadcrumbManager.add calls in SpecB
MaxLimitCalls == 2      \* setMaxBreadcrumbs calls in SpecB
MaxClears == 1          \* BreadcrumbManager.clear calls in SpecB
MaxInitsS == 1          \* Statly.init calls in SpecS
MaxTraces == 2          \* Statly.trace calls
MaxStartSpans == 2      \* Statly.startSpan calls
MaxFinishes == 2        \* span.finish calls of the host
MaxClock == 1           \* Date.now() at the end
MaxInits == 2           \* Statly.init calls in Spec
MaxCaptures == 2        \* captures in Spec
MaxFlushCalls == 2      \* Statly.flush calls in Spec
MaxCloseCalls == 2      \* Statly.close calls in Spec
MaxSetCalls == 2        \* setUser, setTag, setTags, addBreadcrumb calls in Spec
MaxScrubs == 1          \* Scrubber.scrub calls in SpecR
MaxAllows == 1          \* Scrubber.addToAllowlist calls in SpecR
MaxWrites == 2          \* Destination.write calls in SpecD
MaxDestCalls == 2       \* setMinLevel and setSamplingRate calls in SpecD
MaxFailedSends == 1     \* failed sends of log batches in SpecD
MaxLogs == 2            \* log calls in SpecL
MaxLoggerCalls == 2     \* setLevel, addDestination, removeDestination calls in SpecL
MaxChildren == 2        \* child loggers made in SpecK
MaxSetterCalls == 3     \* setter calls on loggers in SpecK
MaxEventsO == 11        \* events handed to the Transport of SpecO
MaxNestedTraces == 2    \* trace calls made when the host makes its last in SpecN
MaxInner == 2           \* trace calls awaited by one operation in SpecN
MaxWritesG == 5         \* ObserveDestination.write calls in SpecG
MaxFlushesG == 2        \* ObserveDestination.flush calls of the host in SpecG
MaxLogsW == 2           \* log calls in SpecW
MaxCallsX == 4          \* calls of facade functions in SpecX
MaxSpanSets == 1        \* setTag, setMetadata, setStatus calls on spans in SpecX
MaxWritesF == 3         \* FileDestination.write calls in SpecF
MaxFlushesF == 2        \* FileDestination.flush calls in SpecF

(* Program constants *)

maxQueueSize == 100
eagerFlushSize == 10

Null == "null"

----------------------------------------------------------------------------
(* Strings are sequences of tokens, so that parsing has something to do. *)

IngestPath == "/api/v1/observe/ingest"
DefaultEndpoint == <<"https", "://", "statly.live", IngestPath>>

DsnGood == <<"https", "://", "sk_live_test", "@", "host", "/", "org">>
DsnPlainHost == <<"http", "://", "localhost:3000", "/", "acme">>
DsnMalformed == <<"my-org">>
Dsns == {DsnGood, DsnPlainHost, DsnMalformed}

SpecialSchemes == {"https", "http"}

(* Index of the first token of s at or after position i that equals t, or *)
(* Len(s) + 1 when there is none.                                          *)
RECURSIVE IndexFrom(_, _, _)
IndexFrom(s, t, i) ==
    IF i > Len(s) THEN Len(s) + 1
    ELSE IF s[i] = t THEN i
    ELSE IndexFrom(s, t, i + 1)

(* new URL(dsn): [ok, protocol, host]; ok = FALSE is the TypeError thrown  *)
(* for a string with no scheme or an empty host.                          *)
parseURL(dsn) ==
    IF Len(dsn) < 3 \/ dsn[1] \notin SpecialSchemes \/ dsn[2] # "://"
    THEN [ok |-> FALSE, protocol |-> "", host |-> ""]
    ELSE LET slash == IndexFrom(dsn, "/", 3)
             authority == SubSeq(dsn, 3, slash - 1)
             at == IndexFrom(authority, "@", 1)
             hostpart == IF at > Len(authority) THEN authority
                         ELSE SubSeq(authority, at + 1, Len(authority))
         IN  IF Len(hostpart) # 1
             THEN [ok |-> FALSE, protocol |-> "", host |-> ""]
             ELSE [ok |-> TRUE, protocol |-> dsn[1], host |-> hostpart[1]]

parseEndpointUserinfoAsHost(dsn) ==
    IF Len(dsn) >= 3 /\ dsn[2] = "://"
    THEN <<dsn[1], "://", dsn[3], IngestPath>>
    ELSE DefaultEndpoint

parseEndpoint(dsn) ==
    LET url == parseURL(dsn)
    IN  IF url.ok THEN <<url.protocol, "://", url.host, IngestPath>>
        ELSE DefaultEndpoint

----------------------------------------------------------------------------
(* Transport *)

(* new Transport(options): the fields, the endpoint, the flush timer.  The *)
(* timer is set only where window is defined.  batch holds the events of  *)
(* the flush whose fetch has not settled, direct those of send() calls,   *)
(* dropped the events enqueue has shifted out.                            *)
NewTransport(dsn, win) ==
    [dsn |-> dsn,
     endpoint |-> parseEndpoint(dsn),
     queue |-> <<>>,
     isSending |-> FALSE,
     flushTimer |-> win,
     batch |-> <<>>,
     direct |-> <<>>,
     dropped |-> {}]

(* The body of the request sendBatch makes: one event goes unwrapped. *)
payloadAlwaysWrapped(events) == [events |-> events]

payload(events) ==
    IF Len(events) = 1 THEN events[1] ELSE [events |-> events]

request(T, events) ==
    [method |-> "POST", url |-> T.endpoint, dsnHeader |-> T.dsn,
     body |-> payload(events)]

Outcomes == {"ok", "non2xx", "neterr"}

(* What sendBatch's promise settles to once the fetch has settled: its    *)
(* try/catch turns a rejected fetch into a result, so it never throws.    *)
sendBatchResultThrowing(outcome) ==
    CASE outcome = "ok" ->
            [threw |-> FALSE, success |-> TRUE, status |-> "200", error |-> Null]
      [] outcome = "non2xx" ->
            [threw |-> FALSE, success |-> FALSE, status |-> "500", error |-> "body text"]
      [] OTHER ->
            [threw |-> TRUE, success |-> FALSE, status |-> Null, error |-> "Network error"]

sendBatchResult(outcome) ==
    CASE outcome = "ok" ->
            [threw |-> FALSE, success |-> TRUE, status |-> "200", error |-> Null]
      [] outcome = "non2xx" ->
            [threw |-> FALSE, success |-> FALSE, status |-> "500", error |-> "body text"]
      [] OTHER ->
            [threw |-> FALSE, success |-> FALSE, status |-> Null, error |-> "Network error"]

(* Array.prototype.slice(0, n) *)
Take(s, n) == SubSeq(s, 1, IF Len(s) < n THEN Len(s) ELSE n)

(* flush(), up to its await: nothing when a flush is in flight or the     *)
(* queue is empty; else the queue is swapped out and sendBatch is called. *)
flushStarts(T) == ~T.isSending /\ T.queue # <<>>

flushIgnoringInFlight(T) ==
    IF T.queue = <<>> THEN T
    ELSE [T EXCEPT !.isSending = TRUE, !.batch = T.batch \o T.queue, !.queue = <<>>]

flush(T) ==
    IF T.isSending \/ T.queue = <<>> THEN T
    ELSE [T EXCEPT !.isSending = TRUE, !.batch = T.queue, !.queue = <<>>]

(* flush(), from the await on: r is what sendBatch settled to.  The catch *)
(* block puts the events back, the finally block clears isSending.        *)
flushSettledUncapped(T, r) ==
    [T EXCEPT !.queue = T.batch \o T.queue, !.isSending = FALSE, !.batch = <<>>]

flushSettled(T, r) ==
    [T EXCEPT !.queue = IF r.threw THEN Take(T.batch \o T.queue, maxQueueSize)
                        ELSE T.queue,
              !.isSending = FALSE,
              !.batch = <<>>]

(* The promise of flush(): its catch block swallows whatever sendBatch    *)
(* throws.  The promise of send() is sendBatch's own.                     *)
flushPromise(r) == "resolved"
sendPromise(r) == IF r.threw THEN "rejected" ELSE "resolved"

(* enqueue(event) *)
enqueueNoEviction(T, e) ==
    LET T1 == [T EXCEPT !.queue = Append(T.queue, e)]
    IN  IF Len(T1.queue) >= eagerFlushSize THEN flush(T1) ELSE T1

enqueueNoEagerFlush(T, e) ==
    LET full == Len(T.queue) >= maxQueueSize
    IN  [T EXCEPT !.queue = Append(IF full THEN Tail(T.queue) ELSE T.queue, e),
                  !.dropped = IF full THEN T.dropped \cup {Head(T.queue)}
                              ELSE T.dropped]

enqueue(T, e) ==
    LET full == Len(T.queue) >= maxQueueSize
        T1 == [T EXCEPT !.queue = Append(IF full THEN Tail(T.queue) ELSE T.queue, e),
                        !.dropped = IF full THEN T.dropped \cup {Head(T.queue)}
                                    ELSE T.dropped]
    IN  IF Len(T1.queue) >= eagerFlushSize THEN flush(T1) ELSE T1

(* send(event): sendBatch([event]) at once, beside the queue. *)
send(T, e) == [T EXCEPT !.direct = Append(T.direct, e)]

(* destroy(): clearInterval, then one flush that nobody awaits. *)
destroy(T) == [flush(T) EXCEPT !.flushTimer = FALSE]

Without(s, i) == SubSeq(s, 1, i - 1) \o SubSeq(s, i + 1, Len(s))

----------------------------------------------------------------------------
(* A bare Transport driven by its caller.                                  *)

Result(op, ret) == [op |-> op, ret |-> ret]

(* The telemetry module as loaded: no TelemetryProvider client, no active  *)
(* span (0 is null), no Span made; ids counts the ids generated, now is    *)
(* Date.now(), nTrace, nStart and nFinish count the host's calls of        *)
(* Statly.trace, Statly.startSpan and span.finish, nSpanSet its calls of   *)
(* the setters of spans.                                                   *)
NewTelemetry ==
    [spans |-> <<>>, currentSpan |-> 0, client |-> 0, ids |-> 0, now |-> 0,
     nTrace |-> 0, nStart |-> 0, nFinish |-> 0, nSpanSet |-> 0]

(* The logger module as loaded: no Logger, Destination or Scrubber made;   *)
(* console holds the calls of console methods; nLog counts the host's    *)
(* log, write and scrub calls, nOp its other calls, nFail the failed       *)
(* sends of log batches.  objects holds the tag objects made so far: a     *)
(* Logger's tags and an entry's tags are references to them, by index.     *)
NoLoggers ==
    [loggers |-> <<>>, dests |-> <<>>, scrubbers |-> <<>>, console |-> <<>>,
     writes |-> <<>>, unhandled |-> 0, thrown |-> FALSE, nLog |-> 0,
     nOp |-> 0, nFail |-> 0, objects |-> <<>>]

InitT ==
    /\ hasWindow \in BOOLEAN
    /\ tr = <<NewTransport(DsnGood, hasWindow)>>
    /\ calls = {}
    /\ nEv = 0
    /\ nSend = 0
    /\ last = Result("new", Null)
    /\ client = 0
    /\ cl = <<>>
    /\ posts = <<>>
    /\ nInit = 0 /\ nCap = 0 /\ nFlush = 0 /\ nClose = 0 /\ nSet = 0
    /\ tel = NewTelemetry
    /\ lg = NoLoggers

(* SpecQ: the queue up to its capacity.  The caller enqueues, calls        *)
(* flush() and destroy() without keeping the promises; timer and fetch run *)
(* in between.                                                             *)
QEnqueue ==
    /\ nEv < MaxEnqueues
    /\ nEv' = nEv + 1
    /\ tr' = [tr EXCEPT ![1] = enqueue(tr[1], nEv + 1)]
    /\ UNCHANGED <<lg, tel, hasWindow, calls, nSend, last, facadeVars>>

QFlush ==
    /\ tr' = [tr EXCEPT ![1] = flush(tr[1])]
    /\ UNCHANGED <<lg, tel, hasWindow, calls, nEv, nSend, last, facadeVars>>

QTimer ==
    /\ tr[1].flushTimer
    /\ tr' = [tr EXCEPT ![1] = flush(tr[1])]
    /\ UNCHANGED <<lg, tel, hasWindow, calls, nEv, nSend, last, facadeVars>>

QFetchSettles ==
    /\ tr[1].isSending
    /\ \E o \in Outcomes :
          tr' = [tr EXCEPT ![1] = flushSettled(tr[1], sendBatchResult(o))]
    /\ UNCHANGED <<lg, tel, hasWindow, calls, nEv, nSend, last, facadeVars>>

QDestroy ==
    /\ tr' = [tr EXCEPT ![1] = destroy(tr[1])]
    /\ UNCHANGED <<lg, tel, hasWindow, calls, nEv, nSend, last, facadeVars>>

NextQ ==
    \/ QEnqueue
    \/ QFlush
    \/ QTimer
    \/ QFetchSettles
    \/ QDestroy

SpecQ == InitT /\ [][NextQ]_vars

(* SpecE: nothing but consecutive enqueue calls on a new Transport. *)
SpecE == InitT /\ [][QEnqueue]_vars

(* SpecT: a Transport whose caller keeps the promises of flush() and       *)
(* send(), so that what they settle to shows.                             *)
TEnqueue ==
    /\ nEv < MaxEvents
    /\ nEv' = nEv + 1
    /\ tr' = [tr EXCEPT ![1] = enqueue(tr[1], nEv + 1)]
    /\ last' = Result("enqueue", Null)
    /\ UNCHANGED <<lg, tel, hasWindow, calls, nSend, facadeVars>>

TFlush ==
    /\ tr' = [tr EXCEPT ![1] = flush(tr[1])]
    /\ IF flushStarts(tr[1])
       THEN /\ calls' = calls \cup {[op |-> "flush", g |-> 1]}
            /\ last' = Result("flush", "pending")
       ELSE /\ calls' = calls
            /\ last' = Result("flush", "resolved")
    /\ UNCHANGED <<lg, tel, hasWindow, nEv, nSend, facadeVars>>

TTimer ==
    /\ tr[1].flushTimer
    /\ tr' = [tr EXCEPT ![1] = flush(tr[1])]
    /\ last' = Result("timer", Null)
    /\ UNCHANGED <<lg, tel, hasWindow, calls, nEv, nSend, facadeVars>>

(* The fetch of the flush in flight settles; flush() runs to its end and   *)
(* its promise, when the caller holds it, settles.                        *)
TFetchSettles ==
    /\ tr[1].isSending
    /\ \E o \in Outcomes :
          LET r == sendBatchResult(o)
          IN  /\ tr' = [tr EXCEPT ![1] = flushSettled(tr[1], r)]
              /\ calls' = {c \in calls : c.g # 1}
              /\ last' = Result("settled",
                                [outcome |-> o,
                                 promise |-> IF \E c \in calls : c.g = 1
                                             THEN flushPromise(r) ELSE Null])
    /\ UNCHANGED <<lg, tel, hasWindow, nEv, nSend, facadeVars>>

(* send(event) with an event of the caller's (0: it never enters the queue). *)
TSend ==
    /\ nSend < MaxDirectSends
    /\ nSend' = nSend + 1
    /\ tr' = [tr EXCEPT ![1] = send(tr[1], 0)]
    /\ last' = Result("send", "pending")
    /\ UNCHANGED <<lg, tel, hasWindow, calls, nEv, facadeVars>>

TSendSettles ==
    /\ \E i \in 1..Len(tr[1].direct), o \in Outcomes :
          LET r == sendBatchResult(o)
          IN  /\ tr' = [tr EXCEPT ![1].direct = Without(tr[1].direct, i)]
              /\ last' = Result("sent", [outcome |-> o, promise |-> sendPromise(r),
                                          value |-> r])
    /\ UNCHANGED <<lg, tel, hasWindow, calls, nEv, nSend, facadeVars>>

TDestroy ==
    /\ tr' = [tr EXCEPT ![1] = destroy(tr[1])]
    /\ last' = Result("destroy", Null)
    /\ UNCHANGED <<lg, tel, hasWindow, calls, nEv, nSend, facadeVars>>

NextT ==
    \/ TEnqueue
    \/ TFlush
    \/ TTimer
    \/ TFetchSettles
    \/ TSend
    \/ TSendSettles
    \/ TDestroy

SpecT == InitT /\ [][NextT]_vars

----------------------------------------------------------------------------
(* BreadcrumbManager *)

(* Array.prototype.slice(-n): the last n elements; slice(-0) is slice(0),  *)
(* the whole array.                                                        *)
SliceLast(s, n) ==
    IF n = 0 \/ n >= Len(s) THEN s ELSE SubSeq(s, Len(s) - n + 1, Len(s))

(* BreadcrumbManager.add on the list bs with limit max *)
add(bs, max, crumb) ==
    LET s == Append(bs, crumb)
    IN  IF Len(s) > max THEN SliceLast(s, max) ELSE s

Crumb(category, message, level) ==
    [category |-> category, message |-> message, level |-> level]

(* BreadcrumbManager.getAll(): a new array with the entries of the buffer; *)
(* array tells whose array object the result is.                           *)
getAllLive(bs) == [array |-> "buffer", items |-> bs]

getAll(bs) == [array |-> "copy", items |-> bs]

(* new BreadcrumbManager(maxBreadcrumbs) *)
NewBreadcrumbManager(max) == [breadcrumbs |-> <<>>, maxBreadcrumbs |-> max]

(* BreadcrumbManager.clear and setMaxBreadcrumbs *)
clear(B) == [B EXCEPT !.breadcrumbs = <<>>]

setMaxBreadcrumbs(B, max) ==
    [breadcrumbs |-> IF Len(B.breadcrumbs) > max
                     THEN SliceLast(B.breadcrumbs, max) ELSE B.breadcrumbs,
     maxBreadcrumbs |-> max]

(* A BreadcrumbManager by itself, cl[1], and a caller of its methods:      *)
(* SpecB.  nEv counts the add calls (the n-th breadcrumb added has message *)
(* <<n>>), nSet the setMaxBreadcrumbs calls, nClose the clear calls.       *)
InitB ==
    /\ cl \in {<<NewBreadcrumbManager(max)>> : max \in 0..MaxLimit}
    /\ hasWindow = FALSE
    /\ tr = <<>>
    /\ client = 0
    /\ calls = {}
    /\ posts = <<>>
    /\ nEv = 0
    /\ nSend = 0
    /\ nInit = 0
    /\ nCap = 0
    /\ nFlush = 0
    /\ nClose = 0
    /\ nSet = 0
    /\ tel = NewTelemetry
    /\ lg = NoLoggers
    /\ last = Result("new", Null)

BAdd ==
    /\ nEv < MaxAdds
    /\ nEv' = nEv + 1
    /\ cl' = [cl EXCEPT ![1].breadcrumbs =
                 add(@, cl[1].maxBreadcrumbs, Crumb("custom", <<nEv + 1>>, "info"))]
    /\ last' = Result("add", Null)
    /\ UNCHANGED <<lg, tel, hasWindow, tr, client, calls, posts, nSend, nInit, nCap, nFlush,
                   nClose, nSet>>

BSetMaxBreadcrumbs(max) ==
    /\ nSet < MaxLimitCalls
    /\ nSet' = nSet + 1
    /\ cl' = [cl EXCEPT ![1] = setMaxBreadcrumbs(@, max)]
    /\ last' = Result("setMaxBreadcrumbs", Null)
    /\ UNCHANGED <<lg, tel, hasWindow, tr, client, calls, posts, nEv, nSend, nInit, nCap,
                   nFlush, nClose>>

BClear ==
    /\ nClose < MaxClears
    /\ nClose' = nClose + 1
    /\ cl' = [cl EXCEPT ![1] = clear(@)]
    /\ last' = Result("clear", Null)
    /\ UNCHANGED <<lg, tel, hasWindow, tr, client, calls, posts, nEv, nSend, nInit, nCap,
                   nFlush, nSet>>

BGetAll ==
    /\ last' = Result("getAll", getAll(cl[1].breadcrumbs))
    /\ UNCHANGED <<lg, tel, hasWindow, tr, client, cl, calls, posts, nEv, nSend, nInit, nCap,
                   nFlush, nClose, nSet>>

NextB ==
    \/ BAdd
    \/ \E max \in 0..MaxLimit : BSetMaxBreadcrumbs(max)
    \/ BClear
    \/ BGetAll

SpecB == InitB /\ [][NextB]_vars

----------------------------------------------------------------------------
(* StatlyClient *)

(* The options a host passes to Statly.init: any field may be left out.    *)
(* debug is left out throughout (false).                                   *)
EmptyMap == [k \in {} |-> Null]

HostOptions ==
    { [dsn |-> DsnGood],
      [dsn |-> DsnMalformed],
      EmptyMap,
      [dsn |-> DsnGood, captureConsole |-> FALSE],
      [dsn |-> DsnGood, beforeSend |-> "null"],
      [dsn |-> DsnGood, beforeSend |-> "filter"],
      [dsn |-> DsnGood, beforeSend |-> "replace"] }

Get(o, k, default) == IF k \in DOMAIN o THEN o[k] ELSE default

(* Rates and draws are in hundredths: Math.random() is below 1. *)
Draws == {1, 99}

(* The context argument of captureException: none, or the README's object  *)
(* with a tags field, { tags: ContextTags }.                               *)
CtxWithTags == "{ tags }"
Contexts == {Null, CtxWithTags}
ContextTags == [k1 |-> "t1", k3 |-> "t3"]

mergeOptions(o) ==
    [dsn |-> o.dsn,
     sampleRate |-> Get(o, "sampleRate", 100),
     maxBreadcrumbs |-> Get(o, "maxBreadcrumbs", 100),
     autoCapture |-> Get(o, "autoCapture", TRUE) # FALSE,
     captureConsole |-> Get(o, "captureConsole", TRUE) # FALSE,
     tags |-> Get(o, "tags", EmptyMap),
     beforeSend |-> Get(o, "beforeSend", "default")]

(* new StatlyClient(options) *)
NewClient(o) ==
    [options |-> mergeOptions(o),
     user |-> Null,
     breadcrumbs |-> <<>>,
     initialized |-> FALSE,
     handlers |-> FALSE,
     console |-> FALSE]

(* The wrapped console methods: every installed ConsoleIntegration records *)
(* the call as a breadcrumb of its client.                                 *)
consoleCall(cls, level, message) ==
    [g \in DOMAIN cls |->
        IF cls[g].console
        THEN [cls[g] EXCEPT !.breadcrumbs =
                 add(@, cls[g].options.maxBreadcrumbs,
                     Crumb("console", <<message>>, level))]
        ELSE cls[g]]

(* StatlyClient.init() *)
clientInit(C) ==
    IF C.initialized THEN C
    ELSE [C EXCEPT !.initialized = TRUE,
                   !.handlers = C.options.autoCapture,
                   !.console = C.options.captureConsole,
                   !.breadcrumbs = add(@, C.options.maxBreadcrumbs,
                                       Crumb("navigation", <<"SDK initialized">>, "info"))]

(* { ...a, ...b } *)
Spread(a, b) ==
    [k \in DOMAIN a \cup DOMAIN b |-> IF k \in DOMAIN b THEN b[k] ELSE a[k]]

(* buildEvent(partial); id stands for the identity of the new object.  A   *)
(* field that is undefined (left out of the JSON body) is Null.            *)
buildEventNoUser(C, partial, id) ==
    Spread([id |-> id,
            message |-> IF Get(partial, "message", "") = "" THEN "Unknown error"
                        ELSE partial.message,
            level |-> IF Get(partial, "level", "") = "" THEN "error"
                      ELSE partial.level,
            user |-> Null,
            tags |-> Spread(C.options.tags, Get(partial, "tags", EmptyMap)),
            extra |-> Get(partial, "extra", Null),
            breadcrumbs |-> getAll(C.breadcrumbs)],
           partial)

buildEvent(C, partial, id) ==
    Spread([id |-> id,
            message |-> IF Get(partial, "message", "") = "" THEN "Unknown error"
                        ELSE partial.message,
            level |-> IF Get(partial, "level", "") = "" THEN "error"
                      ELSE partial.level,
            user |-> C.user,
            tags |-> Spread(C.options.tags, Get(partial, "tags", EmptyMap)),
            extra |-> Get(partial, "extra", Null),
            breadcrumbs |-> getAll(C.breadcrumbs)],
           partial)

(* The beforeSend hooks of the hosts: none given (the identity), one that  *)
(* drops every event, the README's filter, one that returns a changed      *)
(* copy.  The result is <<>> for null, <<event>> otherwise.                *)
beforeSend(hook, event) ==
    CASE hook = "null" -> <<>>
      [] hook = "filter" ->
            IF event.message = "ResizeObserver loop" THEN <<>> ELSE <<event>>
      [] hook = "replace" -> <<[event EXCEPT !.extra = "scrubbed"]>>
      [] OTHER -> <<event>>

EventId == "uuid"

(* sendEvent(event): [c, t, ret] are the client, its transport and the     *)
(* returned id afterwards.                                                 *)
sendEventUnprocessed(C, T, event) ==
    LET processed == beforeSend(C.options.beforeSend, event)
    IN  [c |-> [C EXCEPT !.breadcrumbs =
                    add(@, C.options.maxBreadcrumbs,
                        Crumb("statly", <<"Captured ", event.level, ": ", event.message>>,
                              "info"))],
         t |-> enqueue(T, event),
         ret |-> EventId]

sendEvent(C, T, event) ==
    LET processed == beforeSend(C.options.beforeSend, event)
    IN  IF processed = <<>>
        THEN [c |-> C, t |-> T, ret |-> ""]
        ELSE [c |-> [C EXCEPT !.breadcrumbs =
                        add(@, C.options.maxBreadcrumbs,
                            Crumb("statly",
                                  <<"Captured ", event.level, ": ", event.message>>,
                                  "info"))],
              t |-> enqueue(T, processed[1]),
              ret |-> EventId]

(* captureMessage(message, level) *)
captureMessage(C, T, message, level, id) ==
    sendEvent(C, T, buildEvent(C, [message |-> message, level |-> level], id))

(* captureError(error, context), which captureException and the global     *)
(* handlers call; draw is Math.random().                                    *)
captureError(C, T, error, context, draw, id) ==
    IF draw > C.options.sampleRate
    THEN [c |-> C, t |-> T, ret |-> ""]
    ELSE sendEvent(C, T,
            buildEvent(C, [message |-> error, level |-> "error",
                           exception |-> [type |-> "Error", value |-> error],
                           extra |-> context], id))

(* TelemetryProvider.setClient, which the StatlyClient constructor calls *)
setClient(Tl, g) == [Tl EXCEPT !.client = g]

(* StatlyClient.close(), up to its await: the integrations are uninstalled *)
clientCloseStart(C) == [C EXCEPT !.handlers = FALSE, !.console = FALSE]

(* The requests a step has put on the wire: the batch of a flush that the  *)
(* step started.                                                           *)
Wire(T, T2) ==
    IF T.batch = <<>> /\ T2.batch # <<>> THEN <<request(T2, T2.batch)>> ELSE <<>>

----------------------------------------------------------------------------
(* Span, TraceContext, TelemetryProvider and trace().  A Span is a record; *)
(* tel.spans holds the Span objects made so far and a span is referred to  *)
(* by its index there.  An undefined field is <<>>, a defined one <<value>>*)

(* new Span(name, context, tags) at time now *)
NewSpan(name, context, tags, now) ==
    [name |-> name,
     context |-> context,
     startTime |-> now,
     endTime |-> <<>>,
     durationMs |-> <<>>,
     status |-> "ok",
     tags |-> tags,
     metadata |-> EmptyMap,
     finished |-> FALSE]

(* Span.finish(endTime) at time now: endTime is <<>> when not given. *)
finishAgain(S, endTime, now) ==
    LET end == IF endTime # <<>> /\ endTime[1] # 0 THEN endTime[1] ELSE now
    IN  [S EXCEPT !.endTime = <<end>>,
                  !.durationMs = <<end - S.startTime>>,
                  !.finished = TRUE]

finish(S, endTime, now) ==
    IF S.finished THEN S
    ELSE LET end == IF endTime # <<>> /\ endTime[1] # 0 THEN endTime[1] ELSE now
         IN  [S EXCEPT !.endTime = <<end>>,
                       !.durationMs = <<end - S.startTime>>,
                       !.finished = TRUE]

setTag(S, key, value) == [S EXCEPT !.tags = Spread(@, key :> value)]

setMetadata(S, key, value) == [S EXCEPT !.metadata = Spread(@, key :> value)]

setStatus(S, status) == [S EXCEPT !.status = status]

(* Span.toDict(): tags and metadata are the span's own _tags and _metadata *)
(* objects, not copies; the reference names the span by its spanId.        *)
toDict(S) ==
    [name |-> S.name,
     traceId |-> S.context.traceId,
     spanId |-> S.context.spanId,
     parentId |-> S.context.parentId,
     startTime |-> S.startTime,
     endTime |-> S.endTime,
     durationMs |-> S.durationMs,
     status |-> S.status,
     tags |-> [tagsOf |-> S.context.spanId],
     metadata |-> [metadataOf |-> S.context.spanId]]

(* The Span with the given spanId, and what reading the tags and metadata  *)
(* of a span dictionary gives in the telemetry state Tl.                   *)
SpanOf(Tl, spanId) ==
    Tl.spans[CHOOSE i \in DOMAIN Tl.spans : Tl.spans[i].context.spanId = spanId]

TagsOf(Tl, dict) == SpanOf(Tl, dict.tags.tagsOf).tags

MetadataOf(Tl, dict) == SpanOf(Tl, dict.metadata.metadataOf).metadata

(* TelemetryProvider.generateId(): the ids are taken to be all different,  *)
(* the n-th id generated is n.                                             *)
generateId(Tl) == Tl.ids + 1

(* TelemetryProvider.startSpan(name, tags): the new span is the last of    *)
(* spans and the active span.  A parentId of 0 is null.                    *)
startSpanNoParent(Tl, name, tags) ==
    LET traceId == generateId(Tl)
        spanId == generateId([Tl EXCEPT !.ids = traceId])
        span == NewSpan(name, [traceId |-> traceId, spanId |-> spanId,
                               parentId |-> 0], tags, Tl.now)
    IN  [Tl EXCEPT !.spans = Append(@, span),
                   !.ids = spanId,
                   !.currentSpan = Len(Tl.spans) + 1]

startSpan(Tl, name, tags) ==
    LET parent == Tl.currentSpan
        traceId == IF parent # 0 THEN Tl.spans[parent].context.traceId
                   ELSE generateId(Tl)
        parentId == IF parent # 0 THEN Tl.spans[parent].context.spanId ELSE 0
        spanId == generateId([Tl EXCEPT !.ids = IF parent # 0 THEN @ ELSE traceId])
        span == NewSpan(name, [traceId |-> traceId, spanId |-> spanId,
                               parentId |-> parentId], tags, Tl.now)
    IN  [Tl EXCEPT !.spans = Append(@, span),
                   !.ids = spanId,
                   !.currentSpan = Len(Tl.spans) + 1]

(* StatlyClient.captureSpan(span) *)
captureSpanDropped(C, T, span, id) == [c |-> C, t |-> T, ret |-> ""]

captureSpan(C, T, span, id) ==
    sendEvent(C, T, buildEvent(C, [message |-> "Span: " \o span.name,
                                   level |-> "span",
                                   span |-> toDict(span)], id))

(* TelemetryProvider.finishSpan(span) for the span of index i, up to the   *)
(* call of client.captureSpan.                                             *)
finishSpanClearsSlot(Tl, i) ==
    [Tl EXCEPT !.spans[i] = finish(@, <<>>, Tl.now),
               !.currentSpan = 0]

finishSpanStart(Tl, i) ==
    [Tl EXCEPT !.spans[i] = finish(@, <<>>, Tl.now),
               !.currentSpan = IF @ = i THEN 0 ELSE @]

(* The catch block of trace(): error is what the operation threw. *)
traceCatchUnmarked(S, error) == S

traceCatch(S, error) ==
    LET marked == setTag(setStatus(S, "error"), "error", "true")
    IN  IF error.isError
        THEN setTag(setTag(marked, "exception.type", "Error"),
                    "exception.message", error.value)
        ELSE marked

(* What the operation passed to trace() does in the end: it returns a      *)
(* value, throws an Error, or throws something that is no Error.           *)
OpOutcomes ==
    { [kind |-> "returns", value |-> "42", isError |-> FALSE],
      [kind |-> "throws", value |-> "fail", isError |-> TRUE],
      [kind |-> "throws", value |-> "oops", isError |-> FALSE] }

(* The promise trace() returns once the operation has ended with o:        *)
(* `return result` or `throw error`.                                       *)
tracePromise(o) ==
    IF o.kind = "throws"
    THEN [state |-> "rejected", value |-> o.value]
    ELSE [state |-> "resolved", value |-> o.value]

----------------------------------------------------------------------------
(* The Statly facade (index.ts) and its host: Spec.                        *)

Messages == {"hello", "ResizeObserver loop"}
Levels == {"info", "warning"}
Users == {Null, "alice"}
TagValues == {"v1"}

WarnNotInitialized == "[Statly] SDK not initialized. Call Statly.init() first."
WarnAlreadyInitialized ==
    "[Statly] SDK already initialized. Call close() first to reinitialize."
ErrorNoDsn ==
    "[Statly] No DSN provided. Set STATLY_DSN in your environment or pass dsn to init()."
ErrorGetDsn == "[Statly] Get your DSN at https://statly.live/dashboard/observe/setup"

(* loadDsnFromEnv(): the host's environment sets none of the variables. *)
loadDsnFromEnv == <<>>

(* The calls of facade functions the host has made *)
HostCalls == nInit + nCap + nFlush + nClose + nSet

Init ==
    /\ hasWindow \in BOOLEAN
    /\ tr = <<>>
    /\ cl = <<>>
    /\ client = 0
    /\ calls = {}
    /\ posts = <<>>
    /\ nEv = 0
    /\ nSend = 0
    /\ nInit = 0
    /\ nCap = 0
    /\ nFlush = 0
    /\ nClose = 0
    /\ nSet = 0
    /\ tel = NewTelemetry
    /\ lg = NoLoggers
    /\ last = Result("load", Null)

(* init(options): client is 0 for null, else the index of the instance. *)
FInit(o) ==
    LET dsn == IF "dsn" \in DOMAIN o THEN o.dsn ELSE loadDsnFromEnv
    IN  /\ HostCalls < MaxCalls
        /\ nInit < MaxInits
        /\ nInit' = nInit + 1
        /\ IF client # 0
           THEN /\ cl' = consoleCall(cl, "warning", WarnAlreadyInitialized)
                /\ last' = Result("init", "already initialized")
                /\ UNCHANGED <<client, tr, tel>>
           ELSE IF dsn = <<>>
           THEN /\ cl' = consoleCall(consoleCall(cl, "error", ErrorNoDsn),
                                     "error", ErrorGetDsn)
                /\ last' = Result("init", "no dsn")
                /\ UNCHANGED <<client, tr, tel>>
           ELSE /\ cl' = Append(cl, clientInit(NewClient(Spread(o, [dsn |-> dsn]))))
                /\ tr' = Append(tr, NewTransport(dsn, hasWindow))
                /\ client' = Len(cl) + 1
                /\ tel' = setClient(tel, Len(cl) + 1)
                /\ last' = Result("init", "created")
        /\ UNCHANGED <<lg, hasWindow, calls, posts, nEv, nSend, nCap, nFlush, nClose, nSet>>

(* What a facade function does when client is null: it warns and returns. *)
NotInitialized(op, ret) ==
    /\ client = 0
    /\ cl' = consoleCall(cl, "warning", WarnNotInitialized)
    /\ last' = Result(op, ret)
    /\ UNCHANGED <<client, tr, posts>>

(* The client method has run: r.c and r.t are client and transport after. *)
Captured(op, r) ==
    /\ cl' = [cl EXCEPT ![client] = r.c]
    /\ tr' = [tr EXCEPT ![client] = r.t]
    /\ posts' = posts \o Wire(tr[client], r.t)
    /\ last' = Result(op, r.ret)
    /\ UNCHANGED client

(* captureMessage(message, level) *)
FCaptureMessage(m, lvl) ==
    /\ HostCalls < MaxCalls
    /\ nCap < MaxCaptures
    /\ nCap' = nCap + 1
    /\ nEv' = nEv + 1
    /\ \/ NotInitialized("captureMessage", "")
       \/ /\ client # 0
          /\ Captured("captureMessage",
                      captureMessage(cl[client], tr[client], m, lvl, nEv + 1))
    /\ UNCHANGED <<lg, tel, hasWindow, calls, nSend, nInit, nFlush, nClose, nSet>>

(* captureException(error, context) with an Error *)
FCaptureException(context, draw) ==
    /\ HostCalls < MaxCalls
    /\ nCap < MaxCaptures
    /\ nCap' = nCap + 1
    /\ nEv' = nEv + 1
    /\ \/ NotInitialized("captureException", "")
       \/ /\ client # 0
          /\ Captured("captureException",
                      captureError(cl[client], tr[client], "boom", context, draw,
                                   nEv + 1))
    /\ UNCHANGED <<lg, tel, hasWindow, calls, nSend, nInit, nFlush, nClose, nSet>>

(* window.onerror: each installed handler calls the one it replaced first, *)
(* then its own callback, so the error reaches every client whose handlers *)
(* are installed, oldest first.  S is [cl, tr, posts, nEv].                *)
RECURSIVE onerror(_, _, _)
onerror(S, g, draws) ==
    IF g > Len(S.cl) THEN S
    ELSE IF ~S.cl[g].handlers THEN onerror(S, g + 1, draws)
    ELSE LET r == captureError(S.cl[g], S.tr[g], "boom", "onerror", draws[g],
                               S.nEv + 1)
         IN  onerror([cl |-> [S.cl EXCEPT ![g] = r.c],
                      tr |-> [S.tr EXCEPT ![g] = r.t],
                      posts |-> S.posts \o Wire(S.tr[g], r.t),
                      nEv |-> S.nEv + 1],
                     g + 1, draws)

(* An uncaught error in the host, where window is defined. *)
UncaughtError ==
    /\ hasWindow
    /\ HostCalls < MaxCalls
    /\ nCap < MaxCaptures
    /\ nCap' = nCap + 1
    /\ \E g \in DOMAIN cl : cl[g].handlers
    /\ \E draws \in [DOMAIN cl -> Draws] :
          LET S == onerror([cl |-> cl, tr |-> tr, posts |-> posts, nEv |-> nEv],
                           1, draws)
          IN  /\ cl' = S.cl
              /\ tr' = S.tr
              /\ posts' = S.posts
              /\ nEv' = S.nEv
    /\ last' = Result("uncaught", Null)
    /\ UNCHANGED <<lg, tel, hasWindow, client, calls, nSend, nInit, nFlush, nClose, nSet>>

(* setUser(user) *)
FSetUser(u) ==
    /\ HostCalls < MaxCalls
    /\ nSet < MaxSetCalls
    /\ nSet' = nSet + 1
    /\ \/ NotInitialized("setUser", Null)
       \/ /\ client # 0
          /\ cl' = [cl EXCEPT ![client].user = u]
          /\ last' = Result("setUser", u)
          /\ UNCHANGED <<client, tr, posts>>
    /\ UNCHANGED <<lg, tel, hasWindow, calls, nEv, nSend, nInit, nCap, nFlush, nClose>>

(* setTag(key, value) *)
FSetTag(v) ==
    /\ HostCalls < MaxCalls
    /\ nSet < MaxSetCalls
    /\ nSet' = nSet + 1
    /\ \/ NotInitialized("setTag", Null)
       \/ /\ client # 0
          /\ cl' = [cl EXCEPT ![client].options.tags = Spread(@, [k1 |-> v])]
          /\ last' = Result("setTag", Null)
          /\ UNCHANGED <<client, tr, posts>>
    /\ UNCHANGED <<lg, tel, hasWindow, calls, nEv, nSend, nInit, nCap, nFlush, nClose>>

(* setTags(tags) *)
FSetTags(v) ==
    /\ HostCalls < MaxCalls
    /\ nSet < MaxSetCalls
    /\ nSet' = nSet + 1
    /\ \/ NotInitialized("setTags", Null)
       \/ /\ client # 0
          /\ cl' = [cl EXCEPT ![client].options.tags =
                       Spread(@, [k1 |-> v, k2 |-> v])]
          /\ last' = Result("setTags", Null)
          /\ UNCHANGED <<client, tr, posts>>
    /\ UNCHANGED <<lg, tel, hasWindow, calls, nEv, nSend, nInit, nCap, nFlush, nClose>>

(* addBreadcrumb(breadcrumb) *)
FAddBreadcrumb ==
    /\ HostCalls < MaxCalls
    /\ nSet < MaxSetCalls
    /\ nSet' = nSet + 1
    /\ \/ NotInitialized("addBreadcrumb", Null)
       \/ /\ client # 0
          /\ cl' = [cl EXCEPT ![client].breadcrumbs =
                       add(@, cl[client].options.maxBreadcrumbs,
                           Crumb("auth", <<"User logged in">>, "info"))]
          /\ last' = Result("addBreadcrumb", Null)
          /\ UNCHANGED <<client, tr, posts>>
    /\ UNCHANGED <<lg, tel, hasWindow, calls, nEv, nSend, nInit, nCap, nFlush, nClose>>

(* A call of an async facade function that has not settled: op is flush or *)
(* close, g the client it was made on, pre the number of events built      *)
(* before it, waiting whether it awaits the fetch of the flush it started, *)
(* pc where a close call is.                                               *)
Call(n, op, g, pre, waiting) ==
    [n |-> n, op |-> op, g |-> g, pre |-> pre, waiting |-> waiting, pc |-> "flush"]

(* What a settled call leaves in last: the client and the events before it *)
Settled(g, pre) == [g |-> g, pre |-> pre]

(* Timers and network callbacks run only when no continuation of an await  *)
(* that has already resolved is left to run.                               *)
MicrotasksDone == \A c \in calls : c.waiting

(* flush(): await client.flush(), which awaits transport.flush().  When    *)
(* transport.flush() returns at its first line the promise resolves with   *)
(* no fetch to wait for.                                                   *)
FFlush ==
    /\ HostCalls < MaxCalls
    /\ nFlush < MaxFlushCalls
    /\ nFlush' = nFlush + 1
    /\ IF client = 0
       THEN /\ last' = Result("flushed", Settled(0, nEv))
            /\ UNCHANGED <<tr, calls, posts>>
       ELSE /\ tr' = [tr EXCEPT ![client] = flush(tr[client])]
            /\ posts' = posts \o Wire(tr[client], flush(tr[client]))
            /\ IF flushStarts(tr[client])
               THEN /\ calls' = calls \cup
                                   {Call(nFlush + 1, "flush", client, nEv, TRUE)}
                    /\ last' = Result("flush", "pending")
               ELSE /\ calls' = calls
                    /\ last' = Result("flushed", Settled(client, nEv))
    /\ UNCHANGED <<lg, tel, hasWindow, client, cl, nEv, nSend, nInit, nCap, nClose, nSet>>

(* close(), up to the await in StatlyClient.close(): the integrations are  *)
(* uninstalled and transport.flush() is called.                            *)
FClose ==
    /\ HostCalls < MaxCalls
    /\ nClose < MaxCloseCalls
    /\ nClose' = nClose + 1
    /\ IF client = 0
       THEN /\ last' = Result("closed", Settled(0, nEv))
            /\ UNCHANGED <<cl, tr, calls, posts>>
       ELSE /\ cl' = [cl EXCEPT ![client] = clientCloseStart(cl[client])]
            /\ tr' = [tr EXCEPT ![client] = flush(tr[client])]
            /\ posts' = posts \o Wire(tr[client], flush(tr[client]))
            /\ calls' = calls \cup {Call(nClose + 1, "close", client, nEv,
                                         flushStarts(tr[client]))}
            /\ last' = Result("close", "pending")
    /\ UNCHANGED <<lg, tel, hasWindow, client, nEv, nSend, nInit, nCap, nFlush, nSet>>

(* StatlyClient.close() after its await: destroy the transport, clear      *)
(* initialized.                                                            *)
CloseDestroys ==
    \E c \in calls :
        /\ c.op = "close"
        /\ ~c.waiting
        /\ c.pc = "flush"
        /\ tr' = [tr EXCEPT ![c.g] = destroy(tr[c.g])]
        /\ posts' = posts \o Wire(tr[c.g], destroy(tr[c.g]))
        /\ cl' = [cl EXCEPT ![c.g].initialized = FALSE]
        /\ calls' = (calls \ {c}) \cup {[c EXCEPT !.pc = "return"]}
        /\ last' = Result("internal", Null)
        /\ UNCHANGED <<lg, tel, hasWindow, client, nEv, nSend, nInit, nCap, nFlush, nClose,
                       nSet>>

(* close() after its await: client = null, and the promise resolves. *)
CloseReturns ==
    \E c \in calls :
        /\ c.op = "close"
        /\ c.pc = "return"
        /\ client' = 0
        /\ calls' = calls \ {c}
        /\ last' = Result("closed", Settled(c.g, c.pre))
        /\ UNCHANGED <<lg, tel, hasWindow, cl, tr, posts, nEv, nSend, nInit, nCap, nFlush,
                       nClose, nSet>>

(* The setInterval callback of a transport whose timer is set. *)
Timer ==
    \E g \in DOMAIN tr :
        /\ MicrotasksDone
        /\ tr[g].flushTimer
        /\ tr' = [tr EXCEPT ![g] = flush(tr[g])]
        /\ posts' = posts \o Wire(tr[g], flush(tr[g]))
        /\ last' = Result("internal", Null)
        /\ UNCHANGED <<lg, tel, hasWindow, client, cl, calls, nEv, nSend, nInit, nCap, nFlush,
                       nClose, nSet>>

(* The fetch of a flush in flight settles: flush() runs to its end; the    *)
(* facade call that awaits it goes on (a flush call resolves).             *)
FetchSettles(o) ==
    \E g \in DOMAIN tr :
        LET awaiting == {c \in calls : c.op \in {"flush", "close"} /\ c.g = g
                                         /\ c.waiting}
            flushes == {c \in awaiting : c.op = "flush"}
        IN  /\ MicrotasksDone
            /\ tr[g].isSending
            /\ tr' = [tr EXCEPT ![g] = flushSettled(tr[g], sendBatchResult(o))]
            /\ calls' = (calls \ awaiting) \cup
                            {[c EXCEPT !.waiting = FALSE] : c \in awaiting \ flushes}
            /\ last' = IF flushes # {}
                       THEN Result("flushed",
                                   Settled(g, (CHOOSE c \in flushes : TRUE).pre))
                       ELSE Result("settled",
                                   [outcome |-> o,
                                    promise |-> flushPromise(sendBatchResult(o))])
            /\ UNCHANGED <<lg, tel, hasWindow, client, cl, posts, nEv, nSend, nInit, nCap,
                           nFlush, nClose, nSet>>

(* A host that uses the whole facade with one value of each argument. *)
Next ==
    \/ \E o \in {[dsn |-> DsnGood], EmptyMap} : FInit(o)
    \/ FCaptureMessage("hello", "info")
    \/ FCaptureException(Null, 1)
    \/ UncaughtError
    \/ FSetUser("alice")
    \/ FSetTag("v1")
    \/ FSetTags("v1")
    \/ FAddBreadcrumb
    \/ FFlush
    \/ FClose
    \/ CloseDestroys
    \/ CloseReturns
    \/ Timer
    \/ \E o \in Outcomes : FetchSettles(o)

Spec == Init /\ [][Next]_vars

(* A host that never closes and makes few calls, with every option and  *)
(* argument value.                                                       *)
NextH ==
    \/ HostCalls < MaxCallsH /\ \E o \in HostOptions : FInit(o)
    \/ HostCalls < MaxCallsH /\ \E m \in Messages, lvl \in Levels : FCaptureMessage(m, lvl)
    \/ HostCalls < MaxCallsH /\ \E draw \in Draws : FCaptureException(Null, draw)
    \/ HostCalls < MaxCallsH /\ UncaughtError
    \/ HostCalls < MaxCallsH /\ \E u \in Users : FSetUser(u)
    \/ HostCalls < MaxCallsH /\ \E v \in TagValues : FSetTag(v)
    \/ HostCalls < MaxCallsH /\ \E v \in TagValues : FSetTags(v)
    \/ HostCalls < MaxCallsH /\ FAddBreadcrumb
    \/ HostCalls < MaxCallsH /\ FFlush
    \/ Timer
    \/ \E o \in Outcomes : FetchSettles(o)

SpecH == Init /\ [][NextH]_vars

(* A host that captures and sets context with default hooks: the options   *)
(* that decide what an event carries (sampleRate, global tags, a small     *)
(* maxBreadcrumbs), captureException with and without a context.           *)
ContentOptions ==
    { [dsn |-> DsnGood],
      [dsn |-> DsnGood, sampleRate |-> 0],
      [dsn |-> DsnGood, sampleRate |-> 50],
      [dsn |-> DsnGood, tags |-> [k1 |-> "g1", k2 |-> "g2"]],
      [dsn |-> DsnGood, maxBreadcrumbs |-> 2] }

NextC ==
    \/ HostCalls < MaxCallsC /\ \E o \in ContentOptions : FInit(o)
    \/ HostCalls < MaxCallsC /\ \E lvl \in Levels : FCaptureMessage("hello", lvl)
    \/ HostCalls < MaxCallsC /\ \E context \in Contexts, draw \in Draws :
                                    FCaptureException(context, draw)
    \/ HostCalls < MaxCallsC /\ \E u \in Users : FSetUser(u)
    \/ HostCalls < MaxCallsC /\ \E v \in TagValues : FSetTag(v)
    \/ HostCalls < MaxCallsC /\ \E v \in TagValues : FSetTags(v)
    \/ HostCalls < MaxCallsC /\ FAddBreadcrumb
    \/ Timer
    \/ \E o \in Outcomes : FetchSettles(o)

SpecC == Init /\ [][NextC]_vars

(* A host that sets and clears the user between captures. *)
NextU ==
    \/ HostCalls < MaxCallsU /\ FInit([dsn |-> DsnGood])
    \/ HostCalls < MaxCallsU /\ \E u \in Users : FSetUser(u)
    \/ HostCalls < MaxCallsU /\ FCaptureMessage("hello", "info")
    \/ HostCalls < MaxCallsU /\ \E draw \in Draws : FCaptureException(Null, draw)
    \/ Timer
    \/ \E o \in Outcomes : FetchSettles(o)

SpecU == Init /\ [][NextU]_vars

(* Statly.trace, Statly.startSpan and the spans of a host: SpecS, SpecP.   *)

SpanNames == {"work", "query"}
SpanTags == {EmptyMap, [env |-> "prod"]}
EndTimes == {<<>>, <<0>>, <<7>>}

(* The trace calls of the host: name, tags, and whether the operation sets *)
(* a tag on its span before it first awaits.                               *)
TraceArgs ==
    { [name |-> "work", tags |-> EmptyMap, setsTag |-> TRUE],
      [name |-> "query", tags |-> [env |-> "prod"], setsTag |-> FALSE] }

(* A call of Statly.trace that has not settled: pc is import while         *)
(* StatlyClient.trace awaits import('./telemetry'), then operation while   *)
(* trace() awaits the operation; span is the index of its span.            *)
TraceCall(n, g, a) ==
    [n |-> n, op |-> "trace", g |-> g, pre |-> nEv, waiting |-> FALSE,
     pc |-> "import", span |-> 0, args |-> a]

(* What a settled trace call leaves in last: how the operation ended and   *)
(* the promise trace() returned.                                           *)
Traced(n, i, o, promise) ==
    [call |-> n, span |-> i, operation |-> o, promise |-> promise]

(* trace(a.name, operation, a.tags): with no client the operation is       *)
(* called with null and its outcome o is the call's.                       *)
FTrace(a, o) ==
    /\ tel.nTrace < MaxTraces
    /\ tel' = [tel EXCEPT !.nTrace = @ + 1]
    /\ IF client = 0
       THEN /\ last' = Result("traced", Traced(tel.nTrace + 1, 0, o, tracePromise(o)))
            /\ UNCHANGED calls
       ELSE /\ calls' = calls \cup {TraceCall(tel.nTrace + 1, client, a)}
            /\ last' = Result("trace", "pending")
    /\ UNCHANGED <<lg, hasWindow, tr, client, cl, posts, nEv, nSend, nInit, nCap, nFlush,
                   nClose, nSet>>

(* trace() after the import: the span is started and the operation called  *)
(* with it; the operation may set a tag on the span before it first awaits.*)
TraceStarts ==
    \E c \in calls :
        /\ c.op = "trace"
        /\ c.pc = "import"
        /\ LET started == startSpan(tel, c.args.name, c.args.tags)
               i == Len(started.spans)
           IN  /\ tel' = IF c.args.setsTag
                         THEN [started EXCEPT !.spans[i] = setTag(@, "foo", "bar")]
                         ELSE started
               /\ calls' = (calls \ {c}) \cup
                              {[c EXCEPT !.pc = "operation", !.waiting = TRUE,
                                         !.span = i]}
        /\ last' = Result("internal", Null)
        /\ UNCHANGED <<lg, hasWindow, tr, client, cl, posts, nEv, nSend, nInit, nCap,
                       nFlush, nClose, nSet>>

(* The operation of a trace call ends with o: the catch block when it      *)
(* threw, then finally provider.finishSpan(span), which finishes the span, *)
(* clears the slot if the span is the active one and hands the span to the *)
(* provider's client; then the promise settles.                            *)
OperationSettles(o) ==
    \E c \in calls :
        /\ c.op = "trace"
        /\ c.pc = "operation"
        /\ MicrotasksDone
        /\ LET i == c.span
               caught == IF o.kind = "throws"
                         THEN [tel EXCEPT !.spans[i] = traceCatch(@, o)]
                         ELSE tel
               finished == finishSpanStart(caught, i)
               g == tel.client
               r == captureSpan(cl[g], tr[g], finished.spans[i], nEv + 1)
           IN  /\ tel' = finished
               /\ IF g # 0
                  THEN /\ cl' = [cl EXCEPT ![g] = r.c]
                       /\ tr' = [tr EXCEPT ![g] = r.t]
                       /\ posts' = posts \o Wire(tr[g], r.t)
                       /\ nEv' = nEv + 1
                  ELSE UNCHANGED <<cl, tr, posts, nEv>>
               /\ calls' = calls \ {c}
               /\ last' = Result("traced", Traced(c.n, i, o, tracePromise(o)))
        /\ UNCHANGED <<lg, hasWindow, client, nSend, nInit, nCap, nFlush, nClose, nSet>>

(* startSpan(name, tags): null (0) when there is no client *)
FStartSpan(name, tags) ==
    /\ tel.nStart < MaxStartSpans
    /\ IF client = 0
       THEN /\ tel' = [tel EXCEPT !.nStart = @ + 1]
            /\ last' = Result("startSpan", 0)
       ELSE /\ tel' = [startSpan(tel, name, tags) EXCEPT !.nStart = @ + 1]
            /\ last' = Result("startSpan", Len(tel.spans) + 1)
    /\ UNCHANGED <<lg, hasWindow, tr, calls, client, cl, posts, nEv, nSend, nInit, nCap,
                   nFlush, nClose, nSet>>

(* The host calls span.finish(endTime) on a span it was given. *)
SpanFinish(i, endTime) ==
    /\ tel.nFinish < MaxFinishes
    /\ i \in DOMAIN tel.spans
    /\ tel' = [tel EXCEPT !.spans[i] = finish(@, endTime, tel.now),
                          !.nFinish = @ + 1]
    /\ last' = Result("finish", i)
    /\ UNCHANGED <<lg, hasWindow, tr, calls, client, cl, posts, nEv, nSend, nInit, nCap,
                   nFlush, nClose, nSet>>

(* Time passes. *)
Tick ==
    /\ tel.now < MaxClock
    /\ tel' = [tel EXCEPT !.now = @ + 1]
    /\ last' = Result("tick", Null)
    /\ UNCHANGED <<lg, hasWindow, tr, calls, client, cl, posts, nEv, nSend, nInit, nCap,
                   nFlush, nClose, nSet>>

(* A host that traces operations on one client, up to the handing of the   *)
(* span events to the transport.                                           *)
NextS ==
    \/ nInit < MaxInitsS /\ FInit([dsn |-> DsnGood])
    \/ \E a \in TraceArgs, o \in OpOutcomes : FTrace(a, o)
    \/ TraceStarts
    \/ \E o \in OpOutcomes : OperationSettles(o)

SpecS == Init /\ [][NextS]_vars

(* A host that starts spans by hand and finishes them. *)
NextP ==
    \/ nInit < MaxInitsS /\ FInit([dsn |-> DsnGood])
    \/ \E name \in SpanNames, tags \in SpanTags : FStartSpan(name, tags)
    \/ \E i \in 1..MaxStartSpans, endTime \in EndTimes : SpanFinish(i, endTime)
    \/ Tick

SpecP == Init /\ [][NextP]_vars

----------------------------------------------------------------------------
(* Properties of the Transport *)

Ids(a, b) == [i \in 1..(b - a + 1) |-> a + i - 1]

(* C1: the queue of a Transport never holds more than maxQueueSize (100)   *)
(* events, whatever the interleaving of enqueue, flush, timer and fetch;   *)
(* an enqueue on a full queue drops the oldest queued event and appends    *)
(* the new one (which the eager flush then takes when no send is in        *)
(* flight); enqueue can always be called and returns.                      *)
C1_EvictStep ==
    (nEv' = nEv + 1 /\ Len(tr[1].queue) = maxQueueSize) =>
        LET q == Append(Tail(tr[1].queue), nEv + 1)
        IN  /\ tr'[1].dropped = tr[1].dropped \cup {Head(tr[1].queue)}
            /\ IF tr[1].isSending
               THEN tr'[1].queue = q /\ tr'[1].batch = tr[1].batch
               ELSE tr'[1].queue = <<>> /\ tr'[1].batch = q

C1_QueueBounded ==
    /\ [](Len(tr[1].queue) <= maxQueueSize)
    /\ [](nEv < MaxEnqueues => ENABLED QEnqueue)
    /\ [][C1_EvictStep]_vars

C1_Witness ==
    /\ Len(tr[1].queue) = maxQueueSize
    /\ tr[1].dropped # {}
    /\ tr[1].isSending

(* C7 as claimed: after 101 consecutive enqueue calls on a new Transport   *)
(* the first event has been evicted and the queue holds 100 events.        *)
C7_Original ==
    nEv = maxQueueSize + 1 =>
        /\ 1 \in tr[1].dropped
        /\ Len(tr[1].queue) = maxQueueSize

(* C7 amended: after 101 consecutive enqueue calls on a new Transport no   *)
(* event has been evicted: the eager flush at the 10th call took events    *)
(* 1..10 into one request, and the queue holds the other 91.  The first    *)
(* eviction is at the 111th consecutive call: it drops the 11th event      *)
(* unsent and leaves 100 events queued.                                    *)
C7_Amended ==
    /\ nEv = maxQueueSize + 1 =>
          /\ tr[1].dropped = {}
          /\ tr[1].batch = Ids(1, eagerFlushSize)
          /\ tr[1].queue = Ids(eagerFlushSize + 1, maxQueueSize + 1)
          /\ Len(tr[1].queue) = maxQueueSize + 1 - eagerFlushSize
    /\ nEv = maxQueueSize + eagerFlushSize + 1 =>
          /\ tr[1].dropped = {eagerFlushSize + 1}
          /\ tr[1].batch = Ids(1, eagerFlushSize)
          /\ tr[1].queue = Ids(eagerFlushSize + 2, maxQueueSize + eagerFlushSize + 1)
          /\ Len(tr[1].queue) = maxQueueSize

C7_Witness ==
    /\ nEv = maxQueueSize + eagerFlushSize + 1
    /\ tr[1].dropped # {}

(* C2 as claimed: when the fetch of a flush fails, the events of its batch *)
(* are back in the queue, ahead of the events enqueued meanwhile, cut to   *)
(* maxQueueSize.                                                           *)
C2_FailedStep ==
    (tr[1].isSending /\ ~tr'[1].isSending /\ last'.op = "settled"
        /\ last'.ret.outcome # "ok") =>
        tr'[1].queue = Take(tr[1].batch \o tr[1].queue, maxQueueSize)

C2_Requeued == [][C2_FailedStep]_vars

(* C6: the promises of Transport.send and Transport.flush never reject: on *)
(* a network error or a non-2xx response send resolves to a result with    *)
(* success = false and a status or an error text, and flush resolves.      *)
C6_NeverRejects ==
    /\ last.op = "sent" =>
          /\ last.ret.promise = "resolved"
          /\ last.ret.value.success = (last.ret.outcome = "ok")
          /\ last.ret.outcome # "ok" =>
                (last.ret.value.status # Null \/ last.ret.value.error # Null)
    /\ last.op = "settled" => last.ret.promise \in {"resolved", Null}

C6_Witness ==
    /\ last.op = "sent"
    /\ last.ret.outcome = "neterr"
    /\ nEv > 0

----------------------------------------------------------------------------
(* Properties of the facade *)

Range(s) == {s[i] : i \in DOMAIN s}

(* The events a request carries *)
BodyEvents(body) ==
    IF "events" \in DOMAIN body THEN Range(body.events) ELSE {body}

(* The events a client has handed to its transport, and those the          *)
(* requests made so far carry.                                             *)
Handed(T) == Range(T.queue) \cup Range(T.batch) \cup T.dropped
Posted == UNION {BodyEvents(posts[i].body) : i \in DOMAIN posts}

(* C3 as claimed: when the promise of Statly.flush() resolves, every event *)
(* captured before the call has been submitted in a request: none of them  *)
(* is still in the queue.                                                  *)
C3_FlushDelivers ==
    (last.op = "flushed" /\ last.ret.g # 0) =>
        \A e \in Range(tr[last.ret.g].queue) : e.id > last.ret.pre

(* C4 as claimed: when the promise of Statly.close() resolves, no event    *)
(* enqueued before the call is left in the queue, the timer of the         *)
(* transport is cancelled and the client instance is cleared.              *)
C4_CloseDelivers ==
    (last.op = "closed" /\ last.ret.g # 0) =>
        /\ \A e \in Range(tr[last.ret.g].queue) : e.id > last.ret.pre
        /\ ~tr[last.ret.g].flushTimer
        /\ client = 0

(* C5: after init with dsn https://sk_live_test@host/org and nothing else  *)
(* in the options, one captureMessage('hello', 'info') and then flush(),   *)
(* exactly one POST has been issued when flush's promise resolves, to      *)
(* https://host/api/v1/observe/ingest, and its body is the event itself    *)
(* (not wrapped in {events: [...]}) with message 'hello' and level 'info'; *)
(* no second POST follows.                                                 *)
C5_Calls ==
    /\ nInit = 1
    /\ nCap = 1
    /\ nFlush = 1
    /\ HostCalls = 3
    /\ client = 1
    /\ cl[1].options = mergeOptions([dsn |-> DsnGood])
    /\ Crumb("statly", <<"Captured ", "info", ": ", "hello">>, "info")
           \in Range(cl[1].breadcrumbs)

C5_OnePost ==
    C5_Calls =>
        /\ Len(posts) <= 1
        /\ (last.op = "flushed" /\ last.ret = Settled(1, 1)) =>
              /\ Len(posts) = 1
              /\ posts[1].method = "POST"
              /\ posts[1].url = <<"https", "://", "host", "/api/v1/observe/ingest">>
              /\ "events" \notin DOMAIN posts[1].body
              /\ posts[1].body.message = "hello"
              /\ posts[1].body.level = "info"

C5_Witness ==
    /\ C5_Calls
    /\ last.op = "flushed"
    /\ last.ret = Settled(1, 1)
    /\ Len(posts) = 1
    /\ ~tr[1].isSending

(* C8 as claimed: init() while a client exists leaves the client and all   *)
(* its state unchanged; when close() has resolved there is no client; an   *)
(* init() with a DSN when there is no client creates a new initialized     *)
(* client with nothing queued.                                             *)
C8_LifecycleStep ==
    /\ (last'.op = "init" /\ client # 0) =>
          (client' = client /\ cl' = cl /\ tr' = tr)
    /\ last'.op = "closed" => client' = 0
    /\ (last'.op = "init" /\ client = 0 /\ last'.ret # "no dsn") =>
          /\ client' = Len(cl) + 1
          /\ cl'[client'].initialized
          /\ cl'[client'].user = Null
          /\ tr'[client'].queue = <<>>
          /\ ~tr'[client'].isSending

C8_Lifecycle == [][C8_LifecycleStep]_vars

(* C9 as claimed: while there is no client, captureException and           *)
(* captureMessage return the empty string, setUser, setTag, setTags and    *)
(* addBreadcrumb return, and none of them changes anything: nothing is     *)
(* enqueued, nothing is sent, no client object changes.                    *)
C9_Ops ==
    {"captureException", "captureMessage", "setUser", "setTag", "setTags",
     "addBreadcrumb"}

C9_NoClientStep ==
    (client = 0 /\ last'.op \in C9_Ops) =>
        /\ last'.op \in {"captureException", "captureMessage"} => last'.ret = ""
        /\ tr' = tr
        /\ posts' = posts
        /\ cl' = cl
        /\ client' = 0

C10_HookDecides ==
    client # 0 =>
        LET hook == cl[client].options.beforeSend
            all == Handed(tr[client]) \cup Posted
        IN  /\ hook = "null" => all = {}
            /\ hook = "filter" => \A e \in all : e.message # "ResizeObserver loop"
            /\ hook = "replace" => \A e \in all : e.extra = "scrubbed"
            /\ hook = "default" => \A e \in all : e.extra # "scrubbed"
            /\ last.op \in {"captureException", "captureMessage"} =>
                  /\ (last.ret = "") = (\A e \in all : e.id # nEv)
                  /\ hook = "null" => last.ret = ""
                  /\ hook \in {"replace", "default"} => last.ret # ""

C10_Witness ==
    /\ client # 0
    /\ cl[client].options.beforeSend = "null"
    /\ last.op = "captureMessage"
    /\ last.ret = ""
    /\ nFlush > 0

----------------------------------------------------------------------------
(* Properties of the events a client builds *)

CaptureOps == {"captureMessage", "captureException"}

(* A step in which the current client ran captureMessage or captureException *)
CaptureStep == client # 0 /\ nCap' = nCap + 1 /\ last'.op \in CaptureOps

(* C11: every captureException and every captureMessage call compares a    *)
(* draw with sampleRate and, when the draw is above the rate, returns ''   *)
(* with no event built or enqueued and no breadcrumb added.  With a rate   *)
(* below every draw, each capture must therefore be dropped.               *)
C11_DropStep ==
    (CaptureStep /\ \A draw \in Draws : draw > cl[client].options.sampleRate)
        => /\ last'.ret = ""
           /\ tr' = tr
           /\ cl' = cl
           /\ posts' = posts

C11_Sampled == [][C11_DropStep]_vars

(* The event a capture step has built and handed to the transport *)
NewEvents == {e \in Handed(tr'[client]) : e.id = nEv'}

(* C12: captureException(error, {tags: T}) on a client whose global tags   *)
(* are G enqueues an event whose tags are G overlaid with T (T wins on a   *)
(* key both have); the global tags are not changed by the call.            *)
C12_MergeStep ==
    (CaptureStep /\ last'.op = "captureException" /\ last'.ret # "")
        => /\ NewEvents # {}
           /\ \A e \in NewEvents :
                 e.extra = CtxWithTags
                    => e.tags = Spread(cl[client].options.tags, ContextTags)
           /\ cl'[client].options.tags = cl[client].options.tags

C12_CallTagsMerged == [][C12_MergeStep]_vars

(* The events a transport holds stay as they are until they are posted. *)
EventsKept ==
    \A g \in DOMAIN tr : \A e \in Handed(tr[g]) : e \in Handed(tr'[g]) \cup Posted'

(* C13: every event carries the user most recently set before its capture; *)
(* after setUser(null) the events captured until the next setUser of a     *)
(* user have no user field.  Step by step: setUser(u) makes u (null too)   *)
(* the client's user, no other call changes it, a new client has none, a   *)
(* capture puts the client's user (nothing when it is null) in its event,  *)
(* and an event built earlier keeps what it carries.                       *)
C13_UserStep ==
    /\ IF client # 0 /\ nSet' = nSet + 1 /\ last'.op = "setUser"
       THEN /\ cl'[client].user = last'.ret
            /\ \A g \in DOMAIN cl \ {client} : cl'[g].user = cl[g].user
       ELSE /\ \A g \in DOMAIN cl : cl'[g].user = cl[g].user
            /\ \A g \in DOMAIN cl' \ DOMAIN cl : cl'[g].user = Null
    /\ (CaptureStep /\ last'.ret # "")
          => /\ NewEvents # {}
             /\ \A e \in NewEvents : e.user = cl[client].user
    /\ EventsKept

C13_LastUserWins == [][C13_UserStep]_vars

(* A user was set and an event captured, then the user was cleared and a   *)
(* later event captured: the first carries the user, the second none.      *)
C13_Witness ==
    \E g \in DOMAIN tr :
        \E e1, e2 \in Handed(tr[g]) \cup Posted :
            /\ e1.id < e2.id
            /\ e1.user = "alice"
            /\ e2.user = Null
            /\ cl[g].user = Null

----------------------------------------------------------------------------
(* Properties of the BreadcrumbManager *)

(* C14: after any add, setMaxBreadcrumbs(n) and clear calls, for every     *)
(* limit n >= 0 (0 too), getAll() is never longer than the current limit   *)
(* and holds the most recently added breadcrumbs in the order they were    *)
(* added; setMaxBreadcrumbs(n) below the length trims at once.             *)
C14_WithinLimit ==
    LET all == getAll(cl[1].breadcrumbs).items
    IN  /\ Len(all) <= cl[1].maxBreadcrumbs
        /\ \A i \in DOMAIN all : all[i].message = <<nEv - Len(all) + i>>

----------------------------------------------------------------------------
(* Properties of the breadcrumbs of events *)

(* The breadcrumb sendEvent adds for an event it enqueues *)
SelfCrumb(e) == Crumb("statly", <<"Captured ", e.level, ": ", e.message>>, "info")

(* All the events client g has had enqueued *)
Sent(g) == Handed(tr[g]) \cup Posted

(* An event built before any eviction from the buffer holds one 'statly'   *)
(* breadcrumb for each event sent before it, and so none for itself.       *)
C15_Trail ==
    \A g \in DOMAIN cl : \A e \in Sent(g) :
        LET items == e.breadcrumbs.items
        IN  Len(items) < cl[g].options.maxBreadcrumbs
               => Cardinality({i \in DOMAIN items : items[i].category = "statly"})
                     = Cardinality({e1 \in Sent(g) : e1.id < e.id})

(* C15: an event's breadcrumbs are the content of the buffer at the moment *)
(* of its capture: they hold the breadcrumb of every event sent before     *)
(* (as far as the limit has not evicted it) and not its own, which is      *)
(* added after the event was built; the list is a copy, which breadcrumbs  *)
(* added or cleared later do not change.                                   *)
C15_SnapshotStep ==
    /\ (CaptureStep /\ last'.ret # "")
          => /\ NewEvents # {}
             /\ \A e \in NewEvents :
                   /\ e.breadcrumbs.items = cl[client].breadcrumbs
                   /\ e.breadcrumbs.array = "copy"
                   /\ cl'[client].breadcrumbs =
                         add(cl[client].breadcrumbs,
                             cl[client].options.maxBreadcrumbs, SelfCrumb(e))
    /\ EventsKept
    /\ C15_Trail'

C15_Snapshot == [][C15_SnapshotStep]_vars

(* Two events of different levels were sent: the second holds the first's  *)
(* breadcrumb and not its own, which is in the buffer.                     *)
C15_Witness ==
    \E g \in DOMAIN cl :
        \E e1, e2 \in Sent(g) :
            /\ e1.id < e2.id
            /\ e1.level # e2.level
            /\ SelfCrumb(e1) \in Range(e2.breadcrumbs.items)
            /\ SelfCrumb(e2) \notin Range(e2.breadcrumbs.items)
            /\ SelfCrumb(e2) \in Range(cl[g].breadcrumbs)

----------------------------------------------------------------------------
(* Properties of trace() and the spans *)

(* The span events the clients have had enqueued *)
SpanEvents == {e \in UNION {Sent(g) : g \in DOMAIN tr} : e.level = "span"}

(* The span events built from the span of index i *)
EventsOfSpan(i) ==
    {e \in SpanEvents : e.span.spanId = tel.spans[i].context.spanId}

(* C16: when the operation passed to trace(name, fn) throws E, the promise *)
(* trace returned rejects with that same E, and the span handed to the     *)
(* client for the call has status ERROR and the tag error = 'true'.        *)
C16_ErrorTrace ==
    (last.op = "traced" /\ last.ret.operation.kind = "throws")
        => /\ last.ret.promise = [state |-> "rejected",
                                  value |-> last.ret.operation.value]
           /\ last.ret.span # 0
                 => /\ EventsOfSpan(last.ret.span) # {}
                    /\ \A e \in EventsOfSpan(last.ret.span) :
                          /\ e.span.status = "error"
                          /\ "error" \in DOMAIN TagsOf(tel, e.span)
                          /\ TagsOf(tel, e.span)["error"] = "true"

(* A trace on a client whose operation threw an Error has settled. *)
C16_Witness ==
    /\ last.op = "traced"
    /\ last.ret.operation.kind = "throws"
    /\ last.ret.operation.isError
    /\ last.ret.span # 0
    /\ EventsOfSpan(last.ret.span) # {}

(* The trace call that settled in this step *)
SettledCalls == {c \in calls \ calls' : c.op = "trace" /\ c.pc = "operation"}

(* Each span of a trace call has no span event while its call is pending   *)
(* and exactly one once the call has settled.                              *)
C17_OncePerSpan ==
    \A i \in DOMAIN tel.spans :
        Cardinality(EventsOfSpan(i)) =
            IF \E c \in calls : c.op = "trace" /\ c.span = i THEN 0 ELSE 1

(* C17: for every trace() call on an initialized client, whether the       *)
(* operation returns or throws, finishSpan runs exactly once: one span     *)
(* event (level 'span', with the span's name and the tags set during the   *)
(* operation) is handed to the client, the span is finished then, and on   *)
(* normal return the promise resolves to the operation's result.           *)
C17_SettleStep ==
    /\ \A c \in SettledCalls :
          LET i == c.span
              new == SpanEvents' \ SpanEvents
          IN  /\ last'.op = "traced"
              /\ last'.ret.call = c.n
              /\ Cardinality(new) = 1
              /\ \A e \in new :
                    /\ e.span.spanId = tel.spans[i].context.spanId
                    /\ e.span.name = c.args.name
                    /\ e.message = "Span: " \o c.args.name
                    /\ \A k \in DOMAIN c.args.tags : k \in DOMAIN TagsOf(tel', e.span)
                    /\ \A k \in DOMAIN c.args.tags :
                          TagsOf(tel', e.span)[k] = c.args.tags[k]
                    /\ c.args.setsTag
                          => /\ "foo" \in DOMAIN TagsOf(tel', e.span)
                             /\ TagsOf(tel', e.span)["foo"] = "bar"
                    /\ e.span.endTime # <<>>
                    /\ e.span.durationMs # <<>>
              /\ tel'.spans[i].finished
              /\ last'.ret.operation.kind = "returns"
                    => last'.ret.promise = [state |-> "resolved",
                                            value |-> last'.ret.operation.value]
    /\ SettledCalls = {} => SpanEvents' = SpanEvents
    /\ C17_OncePerSpan'

C17_FinishedOnce == [][C17_SettleStep]_vars

(* A trace whose operation set a tag and returned 42 has resolved, and     *)
(* another whose operation threw has rejected: each span has its event.    *)
C17_Witness ==
    /\ last.op = "traced"
    /\ last.ret.span # 0
    /\ last.ret.promise = [state |-> "resolved", value |-> "42"]
    /\ \E e \in EventsOfSpan(last.ret.span) :
          "foo" \in DOMAIN TagsOf(tel, e.span) /\ e.span.durationMs # <<>>
    /\ \E i \in DOMAIN tel.spans :
          i # last.ret.span /\ tel.spans[i].status = "error" /\ EventsOfSpan(i) # {}

(* The host's span.finish() call of this step, on a span that exists *)
FinishStep == last'.op = "finish" /\ tel'.nFinish = tel.nFinish + 1

(* A span's duration is defined exactly when the span is finished. *)
C18_DurationIffFinished ==
    \A i \in DOMAIN tel.spans :
        /\ tel.spans[i].durationMs # <<>> <=> tel.spans[i].finished
        /\ tel.spans[i].endTime # <<>> <=> tel.spans[i].finished

(* C18: Span.finish is idempotent: only the first finish sets the end time *)
(* and the duration, a later finish, with or without an endTime, leaves    *)
(* both as they are; and in every state a span's duration is defined if    *)
(* and only if the span has been finished.                                 *)
C18_FinishStep ==
    /\ FinishStep
          => /\ tel'.spans[last'.ret].finished
             /\ tel.spans[last'.ret].finished
                   => tel'.spans[last'.ret] = tel.spans[last'.ret]
    /\ \A i \in DOMAIN tel.spans :
          tel.spans[i].finished
             => /\ tel'.spans[i].endTime = tel.spans[i].endTime
                /\ tel'.spans[i].durationMs = tel.spans[i].durationMs
    /\ C18_DurationIffFinished'

C18_FinishIdempotent == [][C18_FinishStep]_vars

(* finish() was just called, at time 1, on a span that had been finished   *)
(* at time 0: its end time and duration are still those of time 0.         *)
C18_Witness ==
    /\ last.op = "finish"
    /\ tel.now = 1
    /\ tel.spans[last.ret].endTime = <<0>>
    /\ tel.spans[last.ret].durationMs = <<0>>

(* C19: startSpan reads the one active-span slot: when it holds span P the *)
(* new span gets P's trace id and P's span id as its parent id; when it is *)
(* empty the new span gets a new trace id and no parent; either way the    *)
(* new span is the active span afterwards.                                 *)
C19_StartStep ==
    (last'.op = "startSpan" /\ last'.ret # 0)
        => LET new == tel'.spans[last'.ret]
               P == tel.currentSpan
               used == {tel.spans[i].context.traceId : i \in DOMAIN tel.spans}
                          \cup {tel.spans[i].context.spanId : i \in DOMAIN tel.spans}
           IN  /\ last'.ret = Len(tel.spans) + 1
               /\ IF P # 0
                  THEN /\ new.context.traceId = tel.spans[P].context.traceId
                       /\ new.context.parentId = tel.spans[P].context.spanId
                  ELSE /\ new.context.traceId \notin used
                       /\ new.context.parentId = 0
               /\ new.context.spanId \notin used \cup {new.context.traceId}
               /\ tel'.currentSpan = last'.ret

C19_StartSpanReadsSlot == [][C19_StartStep]_vars

(* A second span was started while the first was active. *)
C19_Witness ==
    /\ last.op = "startSpan"
    /\ last.ret = 2
    /\ tel.spans[1].context.parentId = 0
    /\ tel.spans[2].context.parentId = tel.spans[1].context.spanId
    /\ tel.spans[2].context.traceId = tel.spans[1].context.traceId
    /\ tel.currentSpan = 2

(* C20: for a span obtained from Statly.startSpan on an initialized        *)
(* client, span.finish() reports the span: a span event for it is handed   *)
(* to the client and enqueued to the transport.                            *)
C20_FinishReports ==
    last.op = "finish" => EventsOfSpan(last.ret) # {}

----------------------------------------------------------------------------
(* Scrubber (src/logger/scrubbing).  A value is a string, null, an array   *)
(* or an object; an object is a function from its own keys to values.      *)

Str(s) == [str |-> s]
JsNull == [null |-> "null"]
Arr(items) == [arr |-> items]
Map(entries) == [map |-> entries]

REDACTED == "[REDACTED]"

SENSITIVE_KEYS ==
    {"password", "passwd", "pwd", "secret", "api_key", "apikey", "api-key",
     "token", "access_token", "accesstoken", "refresh_token", "auth",
     "authorization", "bearer", "credential", "credentials", "private_key",
     "privatekey", "private-key", "secret_key", "secretkey", "secret-key",
     "session_id", "sessionid", "session-id", "session", "cookie",
     "x-api-key", "x-auth-token", "x-access-token"}

(* String.prototype.toLowerCase on the keys of the model: the keys with an *)
(* upper-case letter and what they become; every other key is lower case. *)
UpperCaseKeys ==
    [Password |-> "password", TOKEN |-> "token", Note |-> "note"]

toLowerCase(key) ==
    IF key \in DOMAIN UpperCaseKeys THEN UpperCaseKeys[key] ELSE key

isSensitiveKeyExact(key) == key \in SENSITIVE_KEYS

isSensitiveKey(key) == toLowerCase(key) \in SENSITIVE_KEYS

(* The strings of the model that hold a secret, and the built-in pattern   *)
(* whose regex matches each of them from its first to its last character; *)
(* the other strings of the model ("x", "y", "safe") match no regex.       *)
SecretPassword == "password=hunter2"
SecretEmail == "a@b.co"

SCRUB_PATTERNS ==
    [apiKey |-> {}, password |-> {SecretPassword}, token |-> {},
     creditCard |-> {}, ssn |-> {}, email |-> {SecretEmail},
     ipAddress |-> {}, awsKey |-> {}, privateKey |-> {}, jwt |-> {}]

DefaultPatterns ==
    <<"apiKey", "password", "token", "creditCard", "ssn", "awsKey",
      "privateKey", "jwt">>

(* result.replace(regex, REDACTED) *)
replace(s, name) == IF s \in SCRUB_PATTERNS[name] THEN REDACTED ELSE s

(* new Scrubber(config): config has allowlist and patterns or neither. *)
NewScrubber(config) ==
    [enabled |-> TRUE,
     patterns |-> IF "patterns" \in DOMAIN config THEN config.patterns
                  ELSE DefaultPatterns,
     customPatterns |-> <<>>,
     allowlist |-> IF "allowlist" \in DOMAIN config
                   THEN {toLowerCase(k) : k \in config.allowlist}
                   ELSE {},
     customScrubber |-> Null]

addToAllowlist(S, key) ==
    [S EXCEPT !.allowlist = @ \cup {toLowerCase(key)}]

RECURSIVE replaceAll(_, _, _)
replaceAll(s, patterns, i) ==
    IF i > Len(patterns) THEN s
    ELSE replaceAll(replace(s, patterns[i]), patterns, i + 1)

scrubString(S, s) == replaceAll(s, S.patterns, 1)

(* String(index) of Array.prototype.map *)
String(index) == <<"0", "1", "2">>[index + 1]

RECURSIVE scrubValue(_, _, _)
scrubValue(S, value, key) ==
    IF key # "" /\ toLowerCase(key) \in S.allowlist THEN value
    ELSE IF key # "" /\ isSensitiveKey(key) THEN Str(REDACTED)
    ELSE IF value = JsNull THEN value
    ELSE IF "str" \in DOMAIN value THEN Str(scrubString(S, value.str))
    ELSE IF "arr" \in DOMAIN value
         THEN Arr([i \in 1..Len(value.arr) |->
                      scrubValue(S, value.arr[i], String(i - 1))])
    ELSE IF "map" \in DOMAIN value
         THEN Map([k \in DOMAIN value.map |->
                      scrubValue(S, value.map[k], k)])
    ELSE value

scrub(S, value) == IF ~S.enabled THEN value ELSE scrubValue(S, value, "")

(* The maps the host scrubs: a string or an object under "password", a     *)
(* string under "Password", a string or null under "note", an object or    *)
(* an array under "nested"; each key may be absent.                        *)
MapsOver(keys, values) == UNION {[ks -> values] : ks \in SUBSET keys}

InnerMaps == MapsOver({"token", "TOKEN", "note"}, {Str("y")})

ScrubInputs ==
    {Map(a @@ b @@ c @@ d) :
        a \in MapsOver({"password"}, {Str("x"), Map([token |-> Str("y")])}),
        b \in MapsOver({"Password"}, {Str("x")}),
        c \in MapsOver({"note"}, {Str("safe"), Str(SecretPassword), JsNull}),
        d \in MapsOver({"nested"},
                       {Map(m) : m \in InnerMaps}
                           \cup {Arr(<<Map(m), Str(SecretEmail)>>) :
                                    m \in InnerMaps})}

AllowlistKeys == {"password", "Note"}

(* SpecR: a Scrubber with the default configuration; the host adds keys to *)
(* its allowlist and scrubs maps.                                          *)
InitR ==
    /\ lg = [NoLoggers EXCEPT !.scrubbers = <<NewScrubber(EmptyMap)>>]
    /\ hasWindow = FALSE
    /\ tr = <<>>
    /\ cl = <<>>
    /\ client = 0
    /\ calls = {}
    /\ posts = <<>>
    /\ nEv = 0 /\ nSend = 0
    /\ nInit = 0 /\ nCap = 0 /\ nFlush = 0 /\ nClose = 0 /\ nSet = 0
    /\ tel = NewTelemetry
    /\ last = Result("new", Null)

RScrub(value) ==
    /\ lg.nLog < MaxScrubs
    /\ lg' = [lg EXCEPT !.nLog = @ + 1]
    /\ last' = Result("scrub", [value |-> value,
                                returned |-> scrub(lg.scrubbers[1], value)])
    /\ UNCHANGED <<hasWindow, tr, calls, nEv, nSend, facadeVars>>

RAddToAllowlist(key) ==
    /\ lg.nOp < MaxAllows
    /\ lg' = [lg EXCEPT !.nOp = @ + 1,
                        !.scrubbers[1] = addToAllowlist(@, key)]
    /\ last' = Result("addToAllowlist", key)
    /\ UNCHANGED <<hasWindow, tr, calls, nEv, nSend, facadeVars>>

NextR ==
    \/ lg.nLog < MaxScrubs /\ \E value \in ScrubInputs : RScrub(value)
    \/ \E key \in AllowlistKeys : RAddToAllowlist(key)

SpecR == InitR /\ [][NextR]_vars

(* C26: with the default configuration, scrub applied to a map returns a   *)
(* map of the same shape in which, at every depth, the value under a key   *)
(* of the case-insensitive sensitive-key set is the redaction marker (and  *)
(* nothing below it is visited), the value under an allowlisted key is     *)
(* returned unchanged even if the key is sensitive, and a value under any  *)
(* other key that matches no pattern is unchanged; {password: 'x', nested: *)
(* {token: 'y'}, note: 'safe'} gives password and nested.token redacted    *)
(* and note untouched, and with 'password' allowlisted {password: 'x'}     *)
(* comes back as it was.                                                   *)
MatchesNoPattern(s) ==
    \A i \in 1..Len(DefaultPatterns) : s \notin SCRUB_PATTERNS[DefaultPatterns[i]]

RECURSIVE C26_Scrubbed(_, _, _)
C26_Scrubbed(value, returned, allowlist) ==
    IF value = JsNull THEN returned = JsNull
    ELSE IF "str" \in DOMAIN value
         THEN /\ "str" \in DOMAIN returned
              /\ MatchesNoPattern(value.str) => returned = value
    ELSE IF "arr" \in DOMAIN value
         THEN /\ "arr" \in DOMAIN returned
              /\ Len(returned.arr) = Len(value.arr)
              /\ \A i \in 1..Len(value.arr) :
                    C26_Scrubbed(value.arr[i], returned.arr[i], allowlist)
    ELSE /\ "map" \in DOMAIN returned
         /\ DOMAIN returned.map = DOMAIN value.map
         /\ \A k \in DOMAIN value.map :
               IF \E a \in allowlist : toLowerCase(a) = toLowerCase(k)
               THEN returned.map[k] = value.map[k]
               ELSE IF \E sk \in SENSITIVE_KEYS : toLowerCase(k) = sk
               THEN returned.map[k] = Str(REDACTED)
               ELSE C26_Scrubbed(value.map[k], returned.map[k], allowlist)

C26_Example ==
    Map([password |-> Str("x"), nested |-> Map([token |-> Str("y")]),
         note |-> Str("safe")])

C26_ScrubRedacts ==
    last.op = "scrub" =>
        /\ C26_Scrubbed(last.ret.value, last.ret.returned,
                        lg.scrubbers[1].allowlist)
        /\ (last.ret.value = C26_Example /\ lg.scrubbers[1].allowlist = {})
              => last.ret.returned =
                    Map([password |-> Str(REDACTED),
                         nested |-> Map([token |-> Str(REDACTED)]),
                         note |-> Str("safe")])
        /\ (last.ret.value = Map([password |-> Str("x")])
                /\ "password" \in lg.scrubbers[1].allowlist)
              => last.ret.returned = Map([password |-> Str("x")])

C26_Witness ==
    /\ last.op = "scrub"
    /\ last.ret.value = C26_Example
    /\ last.ret.returned.map["password"] = Str(REDACTED)
    /\ last.ret.returned.map["nested"].map["token"] = Str(REDACTED)
    /\ last.ret.returned.map["note"] = Str("safe")

----------------------------------------------------------------------------
(* Destinations of the logger (src/logger/destinations).  An entry is a    *)
(* record with its level, message and timestamp among its fields.          *)

LOG_LEVELS ==
    [trace |-> 0, debug |-> 1, info |-> 2, warn |-> 3, error |-> 4,
     fatal |-> 5, audit |-> 6]

EXTENDED_LEVELS == {"trace", "debug", "info", "warn", "error", "fatal", "audit"}

DEFAULT_LEVELS == {"debug", "info", "warn", "error", "fatal"}

getConsoleMethod(level) ==
    CASE level = "trace" -> "trace"
      [] level = "debug" -> "debug"
      [] level = "info" -> "info"
      [] level = "warn" -> "warn"
      [] level \in {"error", "fatal"} -> "error"
      [] level = "audit" -> "info"
      [] OTHER -> "log"

NewConsoleDestination(config) ==
    [name |-> "console",
     config |-> [enabled |-> Get(config, "enabled", TRUE) # FALSE,
                 colors |-> Get(config, "colors", TRUE) # FALSE,
                 format |-> Get(config, "format", "pretty"),
                 timestamps |-> Get(config, "timestamps", TRUE) # FALSE,
                 levels |-> Get(config, "levels", EXTENDED_LEVELS)],
     minLevel |-> 0]

(* ConsoleDestination.write: the console calls it makes, none or one. *)
consoleWrite(D, entry) ==
    IF ~D.config.enabled THEN <<>>
    ELSE IF entry.level \notin D.config.levels THEN <<>>
    ELSE IF LOG_LEVELS[entry.level] < D.minLevel THEN <<>>
    ELSE <<[method |-> getConsoleMethod(entry.level),
            format |-> D.config.format, entry |-> entry]>>

(* Rates and draws of the sampling are in hundredths. *)
DEFAULT_BATCH_SIZE == 50
DEFAULT_SAMPLING ==
    [trace |-> 1, debug |-> 10, info |-> 50, warn |-> 100, error |-> 100,
     fatal |-> 100, audit |-> 100]

LogsIngestPath == "/api/v1/logs/ingest"

parseLogsEndpoint(dsn) ==
    LET url == parseURL(dsn)
    IN  IF url.ok THEN <<url.protocol, "://", url.host, LogsIngestPath>>
        ELSE <<"https", "://", "statly.live", LogsIngestPath>>

(* new ObserveDestination(dsn, config); setInterval exists in browsers and *)
(* in Node, so the flush timer always runs.  batch is the array `entries`  *)
(* of the flush in flight.                                                 *)
NewObserveDestination(dsn, config) ==
    [name |-> "observe",
     dsn |-> dsn,
     endpoint |-> parseLogsEndpoint(dsn),
     config |-> [enabled |-> Get(config, "enabled", TRUE) # FALSE,
                 batchSize |-> Get(config, "batchSize", DEFAULT_BATCH_SIZE),
                 sampling |-> Get(config, "sampling", EmptyMap) @@ DEFAULT_SAMPLING,
                 levels |-> Get(config, "levels", EXTENDED_LEVELS)],
     queue |-> <<>>,
     batch |-> <<>>,
     isFlushing |-> FALSE,
     flushTimer |-> TRUE,
     minLevel |-> 0]

(* ObserveDestination.flush up to its await *)
observeFlush(D) ==
    IF D.isFlushing \/ D.queue = <<>> THEN D
    ELSE [D EXCEPT !.isFlushing = TRUE, !.batch = D.queue, !.queue = <<>>]

(* ... and after it: sendBatch resolved (ok) or threw. *)
observeFlushSettled(D, ok) ==
    IF ok THEN [D EXCEPT !.isFlushing = FALSE, !.batch = <<>>]
    ELSE [D EXCEPT !.isFlushing = FALSE, !.batch = <<>>,
                   !.queue = Take(D.batch \o D.queue, D.config.batchSize * 3)]

(* ObserveDestination.write with Math.random() = draw / 100 *)
observeWrite(D, entry, draw) ==
    IF ~D.config.enabled THEN D
    ELSE IF entry.level \notin D.config.levels THEN D
    ELSE IF LOG_LEVELS[entry.level] < D.minLevel THEN D
    ELSE IF entry.level # "audit" /\ draw > Get(D.config.sampling, entry.level, 100)
    THEN D
    ELSE LET Q == [D EXCEPT !.queue = Append(@, entry)]
         IN  IF Len(Q.queue) >= Q.config.batchSize THEN observeFlush(Q) ELSE Q

setMinLevel(D, level) == [D EXCEPT !.minLevel = LOG_LEVELS[level]]

Max(a, b) == IF a > b THEN a ELSE b
Min(a, b) == IF a < b THEN a ELSE b

setSamplingRate(D, level, rate) ==
    [D EXCEPT !.config.sampling =
        (level :> Max(0, Min(100, rate))) @@ D.config.sampling]

(* SpecD: a ConsoleDestination (1) and an ObserveDestination (2) with the  *)
(* host configuring them and passing entries to write.                     *)
LevelLists == {{"info", "warn", "audit"}, {"debug", "warn", "error"}}

ConsoleConfigs == {EmptyMap} \cup {[levels |-> ls] : ls \in LevelLists}

ObserveConfigs ==
    {EmptyMap, [batchSize |-> 2], [sampling |-> [warn |-> 0, audit |-> 0]]}
        \cup {[levels |-> ls] : ls \in LevelLists}

SampleDraws == {0, 50, 99}
WrittenLevels == {"debug", "warn", "audit"}
MinLevels == {"info", "audit"}
SampledLevels == {"warn", "audit"}
Rates == {0, 100, 150}

InitD ==
    /\ \E c1 \in ConsoleConfigs, c2 \in ObserveConfigs :
          lg = [NoLoggers EXCEPT
                   !.dests = <<NewConsoleDestination(c1),
                               NewObserveDestination(DsnGood, c2)>>]
    /\ hasWindow = FALSE
    /\ tr = <<>>
    /\ cl = <<>>
    /\ client = 0
    /\ calls = {}
    /\ posts = <<>>
    /\ nEv = 0 /\ nSend = 0
    /\ nInit = 0 /\ nCap = 0 /\ nFlush = 0 /\ nClose = 0 /\ nSet = 0
    /\ tel = NewTelemetry
    /\ last = Result("new", Null)

FailedToSend == "[Statly Logger] Failed to send logs:"

Entry(level, n) == [level |-> level, message |-> "m", timestamp |-> n]

DConsoleWrite(level) ==
    /\ lg.nLog < MaxWrites
    /\ LET entry == Entry(level, lg.nLog + 1)
       IN  /\ lg' = [lg EXCEPT !.nLog = @ + 1,
                               !.console = @ \o consoleWrite(lg.dests[1], entry)]
           /\ last' = Result("write", [dest |-> 1, entry |-> entry, draw |-> 0])
    /\ UNCHANGED <<hasWindow, tr, calls, nEv, nSend, facadeVars>>

DObserveWrite(level, draw) ==
    /\ lg.nLog < MaxWrites
    /\ LET entry == Entry(level, lg.nLog + 1)
       IN  /\ lg' = [lg EXCEPT !.nLog = @ + 1,
                               !.dests[2] = observeWrite(@, entry, draw)]
           /\ last' = Result("write", [dest |-> 2, entry |-> entry, draw |-> draw])
    /\ UNCHANGED <<hasWindow, tr, calls, nEv, nSend, facadeVars>>

DSetMinLevel(i, level) ==
    /\ lg.nOp < MaxDestCalls
    /\ lg' = [lg EXCEPT !.nOp = @ + 1, !.dests[i] = setMinLevel(@, level)]
    /\ last' = Result("setMinLevel", level)
    /\ UNCHANGED <<hasWindow, tr, calls, nEv, nSend, facadeVars>>

DSetSamplingRate(level, rate) ==
    /\ lg.nOp < MaxDestCalls
    /\ lg' = [lg EXCEPT !.nOp = @ + 1,
                        !.dests[2] = setSamplingRate(@, level, rate)]
    /\ last' = Result("setSamplingRate", level)
    /\ UNCHANGED <<hasWindow, tr, calls, nEv, nSend, facadeVars>>

DTimer ==
    /\ lg.dests[2].flushTimer
    /\ lg.dests[2].queue # <<>>
    /\ ~lg.dests[2].isFlushing
    /\ lg' = [lg EXCEPT !.dests[2] = observeFlush(@)]
    /\ last' = Result("timer", Null)
    /\ UNCHANGED <<hasWindow, tr, calls, nEv, nSend, facadeVars>>

DFetchSettles(ok) ==
    /\ lg.dests[2].isFlushing
    /\ ok \/ lg.nFail < MaxFailedSends
    /\ lg' = [lg EXCEPT !.dests[2] = observeFlushSettled(@, ok),
                        !.nFail = IF ok THEN @ ELSE @ + 1,
                        !.console = IF ok THEN @
                                    ELSE Append(@, [method |-> "error",
                                                    text |-> FailedToSend])]
    /\ last' = Result("settle", ok)
    /\ UNCHANGED <<hasWindow, tr, calls, nEv, nSend, facadeVars>>

NextD ==
    \/ \E level \in WrittenLevels : DConsoleWrite(level)
    \/ \E level \in WrittenLevels, draw \in SampleDraws : DObserveWrite(level, draw)
    \/ \E i \in {1, 2}, level \in MinLevels : DSetMinLevel(i, level)
    \/ \E level \in SampledLevels, rate \in Rates : DSetSamplingRate(level, rate)
    \/ DTimer
    \/ \E ok \in BOOLEAN : DFetchSettles(ok)

SpecD == InitD /\ [][NextD]_vars

(* What a destination did with the entry of the last write: printed it     *)
(* (Console) or put it in its queue or in the batch being sent (Observe).  *)
InSeq(s, e) == \E k \in 1..Len(s) : s[k] = e

Printed(e) ==
    \E k \in 1..Len(lg.console) :
        "entry" \in DOMAIN lg.console[k] /\ lg.console[k].entry = e

Emitted(i, e) ==
    IF i = 1 THEN Printed(e)
    ELSE InSeq(lg.dests[2].queue, e) \/ InSeq(lg.dests[2].batch, e)

(* C23: in every enabled destination, for every allowed level set and      *)
(* every minimum level set through setMinLevel, an audit entry passed to   *)
(* write is emitted (printed or queued), and a non-audit entry is emitted  *)
(* only if its level is in the allowed set and its rank is at least the    *)
(* minimum.                                                                *)
C23_AuditAlwaysEmitted ==
    last.op = "write" =>
        LET D == lg.dests[last.ret.dest]
            e == last.ret.entry
        IN  D.config.enabled =>
               /\ e.level = "audit" => Emitted(last.ret.dest, e)
               /\ (e.level # "audit" /\ Emitted(last.ret.dest, e)) =>
                     /\ e.level \in D.config.levels
                     /\ LOG_LEVELS[e.level] >= D.minLevel

(* C24: ObserveDestination.write decides sampling by one draw in [0,1)     *)
(* against the rate of the entry's level: an audit entry that passes the   *)
(* level filters is queued whatever rate 'audit' has, a non-audit entry    *)
(* whose level has rate 1 is always queued, and one whose level has rate 0 *)
(* is never queued.                                                        *)
C24_Sampling ==
    (last.op = "write" /\ last.ret.dest = 2) =>
        LET D == lg.dests[2]
            e == last.ret.entry
            rate == D.config.sampling[e.level]
            passes == /\ D.config.enabled
                      /\ e.level \in D.config.levels
                      /\ LOG_LEVELS[e.level] >= D.minLevel
        IN  /\ (passes /\ e.level = "audit") => Emitted(2, e)
            /\ (passes /\ e.level # "audit" /\ rate = 100) => Emitted(2, e)
            /\ (e.level # "audit" /\ rate = 0) => ~Emitted(2, e)

----------------------------------------------------------------------------
(* Logger (src/logger).  The Loggers are lg.loggers, the Destinations      *)
(* lg.dests; a Logger holds the indices of its destinations in             *)
(* registration order.  lg.writes lists the write calls made on            *)
(* destinations, lg.unhandled counts the rejected promises nobody awaits,  *)
(* lg.thrown tells that the call in progress ends by throwing.             *)
(* An entry's context is the value made at the time of the call; its tags  *)
(* are a reference to the Logger's tag object.                             *)

LevelsDefault == [preset |-> "default"]
LevelsExtended == [preset |-> "extended"]
LevelsList(levels) == [list |-> levels]

parseLevelSet(levels) ==
    IF "preset" \in DOMAIN levels
    THEN IF levels.preset = "default" THEN DEFAULT_LEVELS ELSE EXTENDED_LEVELS
    ELSE levels.list

(* initDestinations: the destinations the constructor makes, in order.  No *)
(* configuration of the model enables the file destination.               *)
initDestinations(config) ==
    LET destinations == Get(config, "destinations", EmptyMap)
        console == Get(destinations, "console", EmptyMap)
        observe == Get(destinations, "observe", EmptyMap)
    IN  (IF Get(console, "enabled", TRUE) # FALSE
         THEN <<NewConsoleDestination(console)>> ELSE <<>>)
        \o (IF "dsn" \in DOMAIN config /\ Get(observe, "enabled", TRUE) # FALSE
            THEN <<NewObserveDestination(config.dsn, observe)>> ELSE <<>>)

(* new Logger(config) in the world G: the world with the Logger and its    *)
(* destinations added.  generateId() gives an id no other Logger has.      *)
(* this.tags refers to the object config.tags, or to a new empty object.   *)
constructLogger(G, config) ==
    LET made == initDestinations(config)
        id == Len(G.loggers) + 1
    IN  [G EXCEPT
           !.loggers = Append(@,
               [name |-> Get(config, "loggerName", "default"),
                config |-> config,
                minLevel |-> LOG_LEVELS[Get(config, "level", "debug")],
                enabledLevels |-> parseLevelSet(Get(config, "levels", LevelsDefault)),
                scrubber |-> NewScrubber(Get(config, "scrubbing", EmptyMap)),
                context |-> Get(config, "context", EmptyMap),
                tags |-> Len(G.objects) + 1,
                sessionId |-> <<"session", id>>,
                traceId |-> Null,
                spanId |-> Null,
                destinations |-> [k \in 1..Len(made) |-> Len(G.dests) + k]]),
           !.dests = @ \o made,
           !.objects = Append(@, Get(config, "tags", EmptyMap))]

shouldLogNoLevelSet(L, level) ==
    IF level = "audit" THEN TRUE
    ELSE ~(LOG_LEVELS[level] < L.minLevel)

shouldLog(L, level) ==
    IF level = "audit" THEN TRUE
    ELSE IF LOG_LEVELS[level] < L.minLevel THEN FALSE
    ELSE level \in L.enabledLevels

(* createEntry: `tags: this.tags` puts the reference in the entry. *)
createEntry(L, level, message, context, now) ==
    [level |-> level,
     message |-> scrubString(L.scrubber, message),
     timestamp |-> now,
     loggerName |-> L.name,
     context |-> scrub(L.scrubber, Map(Spread(L.context, context))),
     tags |-> L.tags,
     traceId |-> L.traceId,
     spanId |-> L.spanId,
     sessionId |-> L.sessionId]

(* A destination the host made: its write records the entry, throws, or    *)
(* returns a promise that rejects.                                         *)
NewCustomDestination(name, behaviour) ==
    [name |-> name, behaviour |-> behaviour, received |-> <<>>]

FailedToWrite(name) == <<"[Statly Logger] Failed to write to ", name, ":">>

(* dest.write(entry) inside the try of Logger.write, for destination i *)
destWrite(G, i, entry, draw) ==
    LET D == G.dests[i]
        called == [G EXCEPT !.writes = Append(@, [dest |-> i, entry |-> entry])]
    IN  IF "behaviour" \in DOMAIN D
        THEN CASE D.behaviour = "throws" ->
                    [called EXCEPT !.console =
                        Append(@, [method |-> "error", text |-> FailedToWrite(D.name)])]
               [] D.behaviour = "rejects" ->
                    [called EXCEPT !.unhandled = @ + 1]
               [] OTHER ->
                    [called EXCEPT !.dests[i].received = Append(@, entry)]
        ELSE IF "queue" \in DOMAIN D
        THEN [called EXCEPT !.dests[i] = observeWrite(D, entry, draw)]
        ELSE [called EXCEPT !.console = @ \o consoleWrite(D, entry)]

(* Logger.write: the loop over this.destinations from position k on *)
RECURSIVE writeFrom(_, _, _, _, _)
writeFrom(G, destinations, k, entry, draw) ==
    IF k > Len(destinations) THEN G
    ELSE writeFrom(destWrite(G, destinations[k], entry, draw),
                   destinations, k + 1, entry, draw)

writeStopsAtThrow(G, destinations, entry, draw) ==
    LET broken == {k \in 1..Len(destinations) :
                      /\ "behaviour" \in DOMAIN G.dests[destinations[k]]
                      /\ G.dests[destinations[k]].behaviour = "throws"}
        upto == IF broken = {} THEN Len(destinations)
                ELSE CHOOSE k \in broken : \A j \in broken : k <= j
    IN  [writeFrom(G, SubSeq(destinations, 1, upto), 1, entry, draw)
            EXCEPT !.thrown = broken # {}]

write(G, destinations, entry, draw) == writeFrom(G, destinations, 1, entry, draw)

(* logger.trace / debug / info / warn / error / fatal / log(level, ...) *)
log(G, g, level, message, context, draw) ==
    LET L == G.loggers[g]
    IN  IF ~shouldLog(L, level) THEN G
        ELSE write(G, L.destinations,
                   createEntry(L, level, message, context, G.nLog + 1), draw)

auditGated(G, g, message, context, draw) ==
    LET L == G.loggers[g]
    IN  IF "audit" \notin L.enabledLevels THEN G
        ELSE write(G, L.destinations,
                   createEntry(L, "audit", message, context, G.nLog + 1), draw)

audit(G, g, message, context, draw) ==
    LET L == G.loggers[g]
    IN  write(G, L.destinations,
              createEntry(L, "audit", message, context, G.nLog + 1), draw)

setLevel(L, level) == [L EXCEPT !.minLevel = LOG_LEVELS[level]]

addDestination(G, g, destination) ==
    [G EXCEPT !.dests = Append(@, destination),
              !.loggers[g].destinations = Append(@, Len(G.dests) + 1)]

removeDestination(G, g, name) ==
    [G EXCEPT !.loggers[g].destinations =
        SelectSeq(@, LAMBDA i : G.dests[i].name # name)]

(* SpecL: one Logger; the host logs, changes the level and adds and        *)
(* removes destinations.                                                   *)
LoggerConfigs ==
    {lvl @@ lvls :
        lvl \in {EmptyMap, [level |-> "info"]},
        lvls \in {EmptyMap, [levels |-> LevelsExtended],
                  [levels |-> LevelsList({"warn", "error", "fatal"})]}}

InitL ==
    /\ \E config \in LoggerConfigs : lg = constructLogger(NoLoggers, config)
    /\ hasWindow = FALSE
    /\ tr = <<>>
    /\ cl = <<>>
    /\ client = 0
    /\ calls = {}
    /\ posts = <<>>
    /\ nEv = 0 /\ nSend = 0
    /\ nInit = 0 /\ nCap = 0 /\ nFlush = 0 /\ nClose = 0 /\ nSet = 0
    /\ tel = NewTelemetry
    /\ last = Result("new", Null)

CalledLevels == {"debug", "info", "warn"}
SetLevels == {"fatal"}
CustomDestinations ==
    {NewCustomDestination("memory", "records"),
     NewCustomDestination("broken", "throws"),
     NewCustomDestination("remote", "rejects")}
RemovedNames == {"broken"}
LogDraws == {0, 99}

LogMessage == "m"

(* Math.random() is drawn only where an ObserveDestination samples. *)
DrawsOf(g) ==
    IF \E k \in 1..Len(lg.loggers[g].destinations) :
          "queue" \in DOMAIN lg.dests[lg.loggers[g].destinations[k]]
    THEN LogDraws ELSE {0}

LLog(g, level, draw) ==
    /\ lg.nLog < MaxLogs
    /\ draw \in DrawsOf(g)
    /\ LET G == log(lg, g, level, LogMessage, EmptyMap, draw)
       IN  /\ lg' = [G EXCEPT !.nLog = @ + 1, !.thrown = FALSE]
           /\ last' = Result(level, IF G.thrown THEN "throws" ELSE "returns")
    /\ UNCHANGED <<hasWindow, tr, calls, nEv, nSend, facadeVars>>

LAudit(g, draw) ==
    /\ lg.nLog < MaxLogs
    /\ draw \in DrawsOf(g)
    /\ LET G == audit(lg, g, LogMessage, EmptyMap, draw)
       IN  /\ lg' = [G EXCEPT !.nLog = @ + 1, !.thrown = FALSE]
           /\ last' = Result("audit", IF G.thrown THEN "throws" ELSE "returns")
    /\ UNCHANGED <<hasWindow, tr, calls, nEv, nSend, facadeVars>>

LSetLevel(g, level) ==
    /\ lg.nOp < MaxLoggerCalls
    /\ lg' = [lg EXCEPT !.nOp = @ + 1, !.loggers[g] = setLevel(@, level)]
    /\ last' = Result("setLevel", level)
    /\ UNCHANGED <<hasWindow, tr, calls, nEv, nSend, facadeVars>>

LAddDestination(g, destination) ==
    /\ lg.nOp < MaxLoggerCalls
    /\ lg' = [addDestination(lg, g, destination) EXCEPT !.nOp = @ + 1]
    /\ last' = Result("addDestination", destination.name)
    /\ UNCHANGED <<hasWindow, tr, calls, nEv, nSend, facadeVars>>

LRemoveDestination(g, name) ==
    /\ lg.nOp < MaxLoggerCalls
    /\ lg' = [removeDestination(lg, g, name) EXCEPT !.nOp = @ + 1]
    /\ last' = Result("removeDestination", name)
    /\ UNCHANGED <<hasWindow, tr, calls, nEv, nSend, facadeVars>>

NextL ==
    \/ \E level \in CalledLevels, draw \in LogDraws : LLog(1, level, draw)
    \/ \E draw \in LogDraws : LAudit(1, draw)
    \/ \E level \in SetLevels : LSetLevel(1, level)
    \/ \E destination \in CustomDestinations : LAddDestination(1, destination)
    \/ \E name \in RemovedNames : LRemoveDestination(1, name)

SpecL == InitL /\ [][NextL]_vars

(* A step that is a log call on Logger 1, the write calls it made, and     *)
(* whether they are one write of one entry to each registered destination  *)
(* of the Logger, in registration order.                                   *)
LogStep == lg'.nLog = lg.nLog + 1 /\ lg'.loggers = lg.loggers

NewWrites == SubSeq(lg'.writes, Len(lg.writes) + 1, Len(lg'.writes))

OfferedToAll(level) ==
    LET destinations == lg.loggers[1].destinations
    IN  /\ Len(NewWrites) = Len(destinations)
        /\ \A k \in 1..Len(NewWrites) :
              /\ NewWrites[k].dest = destinations[k]
              /\ NewWrites[k].entry.level = level
              /\ NewWrites[k].entry = NewWrites[1].entry

(* C21: a Logger gates every non-audit call by its level set and its       *)
(* minimum level: the entry is handed to destinations only if its level is *)
(* in the enabled set and its rank is at least the minimum (and then to    *)
(* each of them once); with levels ['warn','error','fatal'] and level      *)
(* 'info', debug() and info() write nothing and warn() writes one entry.   *)
C21_GateStep ==
    (LogStep /\ last'.op # "audit") =>
        LET L == lg.loggers[1]
            level == last'.op
            passes == level \in L.enabledLevels /\ LOG_LEVELS[level] >= L.minLevel
        IN  /\ NewWrites # <<>> => passes
            /\ passes => OfferedToAll(level)
            /\ (L.enabledLevels = {"warn", "error", "fatal"}
                  /\ L.minLevel = LOG_LEVELS["info"]) =>
                  /\ level \in {"debug", "info"} => NewWrites = <<>>
                  /\ level = "warn" => OfferedToAll("warn")

C21_LevelGate == [][C21_GateStep]_vars

C21_Witness ==
    /\ lg.loggers[1].enabledLevels = {"warn", "error", "fatal"}
    /\ lg.loggers[1].minLevel = LOG_LEVELS["info"]
    /\ lg.nOp = 0
    /\ last.op = "warn"
    /\ Len(lg.writes) = 1
    /\ lg.writes[1].entry.level = "warn"
    /\ lg.writes[1].entry.timestamp = 2

(* C22: Logger.audit() hands its entry to every registered destination,    *)
(* whatever the minimum level ('fatal' included) and whatever the enabled  *)
(* level set (one without 'audit' included), after any setLevel calls.     *)
C22_AuditStep ==
    (LogStep /\ last'.op = "audit") => OfferedToAll("audit")

C22_AuditBypass == [][C22_AuditStep]_vars

C22_Witness ==
    /\ last.op = "audit"
    /\ lg.loggers[1].minLevel = LOG_LEVELS["fatal"]
    /\ "audit" \notin lg.loggers[1].enabledLevels
    /\ Len(lg.loggers[1].destinations) = 2
    /\ Len(lg.writes) = 2
    /\ \A k \in 1..2 : /\ lg.writes[k].entry.level = "audit"
                       /\ lg.writes[k].dest = lg.loggers[1].destinations[k]

(* C25: for every log call that passes the gate, the entry is offered to   *)
(* each registered destination in registration order; a destination whose  *)
(* write throws does not make the log method throw, and every destination  *)
(* registered after it still receives the entry.                           *)
C25_IsolationStep ==
    (LogStep /\ shouldLog(lg.loggers[1], last'.op)) =>
        /\ last'.ret = "returns"
        /\ OfferedToAll(last'.op)

C25_WriteIsolation == [][C25_IsolationStep]_vars

C25_Witness ==
    /\ last.op \in CalledLevels \cup {"audit"}
    /\ last.ret = "returns"
    /\ \E k \in 1..(Len(lg.writes) - 1) :
          /\ "behaviour" \in DOMAIN lg.dests[lg.writes[k].dest]
          /\ lg.dests[lg.writes[k].dest].behaviour = "throws"
          /\ lg.writes[k + 1].entry = lg.writes[k].entry
          /\ lg.writes[k + 1].dest > lg.writes[k].dest
    /\ \E j \in 1..Len(lg.console) : lg.console[j].method = "error"

(* Context, tags and tracing of a Logger, and child loggers. *)
setContext(L, context) == [L EXCEPT !.context = Spread(@, context)]

clearContext(L) == [L EXCEPT !.context = EmptyMap]

(* this.tags[key] = value: the object this.tags refers to is changed *)
loggerSetTag(G, g, key, value) ==
    [G EXCEPT !.objects[G.loggers[g].tags] = Spread(@, key :> value)]

(* this.tags = { ...this.tags, ...tags }: this.tags refers to a new object *)
setTags(G, g, tags) ==
    [G EXCEPT !.objects = Append(@, Spread(G.objects[G.loggers[g].tags], tags)),
              !.loggers[g].tags = Len(G.objects) + 1]

(* this.tags = {} *)
clearTags(G, g) ==
    [G EXCEPT !.objects = Append(@, EmptyMap),
              !.loggers[g].tags = Len(G.objects) + 1]

setTraceId(L, traceId) == [L EXCEPT !.traceId = traceId]

setSpanId(L, spanId) == [L EXCEPT !.spanId = spanId]

clearTracing(L) == [L EXCEPT !.traceId = Null, !.spanId = Null]

(* logger.child(options) on Logger g: the world with the child added *)
child(G, g, options) ==
    LET L == G.loggers[g]
        childConfig ==
            Spread(L.config,
                   [loggerName |-> Get(options, "name", L.name \o ".child"),
                    context |-> Spread(L.context, Get(options, "context", EmptyMap)),
                    tags |-> Spread(G.objects[L.tags],
                                    Get(options, "tags", EmptyMap))])
        made == constructLogger(G, childConfig)
    IN  [made EXCEPT ![ "loggers"][Len(made.loggers)] =
            [@ EXCEPT !.traceId = L.traceId,
                      !.spanId = L.spanId,
                      !.sessionId = L.sessionId]]

(* SpecK: a Logger and the children made of it; the host calls the setters *)
(* of any of them.                                                         *)
ParentConfigs ==
    {Spread(config, [context |-> [app |-> Str("shop")], tags |-> [env |-> "prod"]]) :
        config \in LoggerConfigs}

ChildOptions ==
    {EmptyMap,
     [name |-> "db", context |-> [table |-> Str("users")], tags |-> [env |-> "test"]]}

InitK ==
    /\ \E config \in ParentConfigs : lg = constructLogger(NoLoggers, config)
    /\ hasWindow = FALSE
    /\ tr = <<>>
    /\ cl = <<>>
    /\ client = 0
    /\ calls = {}
    /\ posts = <<>>
    /\ nEv = 0 /\ nSend = 0
    /\ nInit = 0 /\ nCap = 0 /\ nFlush = 0 /\ nClose = 0 /\ nSet = 0
    /\ tel = NewTelemetry
    /\ last = Result("new", Null)

KChild(g, options) ==
    /\ Len(lg.loggers) <= MaxChildren
    /\ lg' = child(lg, g, options)
    /\ last' = Result("child", [parent |-> g, options |-> options])
    /\ UNCHANGED <<hasWindow, tr, calls, nEv, nSend, facadeVars>>

(* A setter call on Logger g that makes it the Logger L *)
Setter(g, name, L) ==
    /\ lg.nOp < MaxSetterCalls
    /\ lg' = [lg EXCEPT !.nOp = @ + 1, !.loggers[g] = L]
    /\ last' = Result(name, g)
    /\ UNCHANGED <<hasWindow, tr, calls, nEv, nSend, facadeVars>>

KSetLevel(g, level) == Setter(g, "setLevel", setLevel(lg.loggers[g], level))

KSetContext(g) ==
    Setter(g, "setContext", setContext(lg.loggers[g], [req |-> Str("r1")]))

KSetTag(g) ==
    /\ lg.nOp < MaxSetterCalls
    /\ lg' = [loggerSetTag(lg, g, "env", "dev") EXCEPT !.nOp = @ + 1]
    /\ last' = Result("setTag", g)
    /\ UNCHANGED <<hasWindow, tr, calls, nEv, nSend, facadeVars>>

KSetTags(g) ==
    /\ lg.nOp < MaxSetterCalls
    /\ lg' = [setTags(lg, g, [region |-> "eu"]) EXCEPT !.nOp = @ + 1]
    /\ last' = Result("setTags", g)
    /\ UNCHANGED <<hasWindow, tr, calls, nEv, nSend, facadeVars>>

KSetTraceId(g) == Setter(g, "setTraceId", setTraceId(lg.loggers[g], "trace-1"))

KSetSpanId(g) == Setter(g, "setSpanId", setSpanId(lg.loggers[g], "span-1"))

KClearTracing(g) == Setter(g, "clearTracing", clearTracing(lg.loggers[g]))

NextK ==
    \/ \E g \in 1..Len(lg.loggers), options \in ChildOptions : KChild(g, options)
    \/ \E g \in 1..Len(lg.loggers), level \in SetLevels : KSetLevel(g, level)
    \/ \E g \in 1..Len(lg.loggers) : KSetContext(g)
    \/ \E g \in 1..Len(lg.loggers) : KSetTag(g)
    \/ \E g \in 1..Len(lg.loggers) : KSetTags(g)
    \/ \E g \in 1..Len(lg.loggers) : KSetTraceId(g)
    \/ \E g \in 1..Len(lg.loggers) : KSetSpanId(g)
    \/ \E g \in 1..Len(lg.loggers) : KClearTracing(g)

SpecK == InitK /\ [][NextK]_vars

(* C27: a child logger is a point-in-time copy of its parent: at creation  *)
(* it has the parent's current minimum level and enabled level set, the    *)
(* parent's context and tags merged with the child's additions, and the    *)
(* parent's session, trace and span ids; afterwards setLevel, setContext,  *)
(* setTag(s), setTraceId, setSpanId and clearTracing on either logger do   *)
(* not change the other.                                                   *)
C27_ChildStep ==
    /\ Len(lg'.loggers) > Len(lg.loggers) =>
          LET P == lg.loggers[last'.ret.parent]
              K == lg'.loggers[Len(lg'.loggers)]
              options == last'.ret.options
          IN  /\ K.minLevel = P.minLevel
              /\ K.enabledLevels = P.enabledLevels
              /\ K.context = Spread(P.context, Get(options, "context", EmptyMap))
              /\ lg'.objects[K.tags] =
                    Spread(lg.objects[P.tags], Get(options, "tags", EmptyMap))
              /\ K.sessionId = P.sessionId
              /\ K.traceId = P.traceId
              /\ K.spanId = P.spanId
              /\ \A h \in 1..Len(lg.loggers) :
                    /\ lg'.loggers[h] = lg.loggers[h]
                    /\ lg'.objects[lg'.loggers[h].tags] = lg.objects[lg.loggers[h].tags]
    /\ lg'.nOp = lg.nOp + 1 =>
          \A h \in 1..Len(lg.loggers) :
              h # last'.ret =>
                  /\ lg'.loggers[h] = lg.loggers[h]
                  /\ lg'.objects[lg'.loggers[h].tags] = lg.objects[lg.loggers[h].tags]

C27_ChildIsCopy == [][C27_ChildStep]_vars

(* C28: at most one Transport flush is in flight: a flush() invoked (by    *)
(* the host, the eager threshold or the timer) while another flush's send  *)
(* has not completed, or while the queue is empty, issues no request and   *)
(* leaves the queue unchanged; the in-flight flag is cleared after every   *)
(* send outcome, so that a later flush can proceed.                        *)
C28_FlushStep ==
    LET T == tr[1]
        T2 == tr'[1]
        blocked == T.isSending \/ T.queue = <<>>
    IN  /\ (last'.op \in {"flush", "timer", "destroy"} /\ blocked) =>
               /\ T2.queue = T.queue
               /\ T2.batch = T.batch
               /\ T2.isSending = T.isSending
        /\ (last'.op \in {"flush", "timer", "destroy"} /\ ~blocked) =>
               /\ T2.isSending
               /\ T2.batch = T.queue
               /\ T2.queue = <<>>
        /\ (last'.op = "enqueue" /\ T.isSending) =>
               /\ T2.isSending
               /\ T2.batch = T.batch
               /\ T2.queue # <<>>
        /\ (T.isSending /\ T2.isSending) => T2.batch = T.batch
        /\ (last'.op = "settled" /\ tr' # tr) => ~T2.isSending /\ T2.batch = <<>>

C28_OneFlushInFlight ==
    [][C28_FlushStep /\ (tr'[1].isSending <=> tr'[1].batch # <<>>)]_vars

C28_Witness ==
    /\ last.op = "flush"
    /\ last.ret = "resolved"
    /\ tr[1].isSending
    /\ tr[1].batch # <<>>
    /\ Len(tr[1].queue) >= eagerFlushSize

----------------------------------------------------------------------------
(* SpecO: a bare Transport with the requests it issues recorded in posts.  *)
(* The events are records with the number of their enqueue call as id.     *)
OEnqueue ==
    /\ nEv < MaxEventsO
    /\ nEv' = nEv + 1
    /\ tr' = [tr EXCEPT ![1] = enqueue(tr[1], [id |-> nEv + 1])]
    /\ posts' = posts \o Wire(tr[1], tr'[1])
    /\ last' = Result("enqueue", Null)
    /\ UNCHANGED <<lg, tel, hasWindow, calls, nSend, client, cl, nInit, nCap,
                   nFlush, nClose, nSet>>

OFlush ==
    /\ tr' = [tr EXCEPT ![1] = flush(tr[1])]
    /\ posts' = posts \o Wire(tr[1], tr'[1])
    /\ last' = Result("flush", Null)
    /\ UNCHANGED <<lg, tel, hasWindow, calls, nEv, nSend, client, cl, nInit,
                   nCap, nFlush, nClose, nSet>>

OTimer ==
    /\ tr[1].flushTimer
    /\ tr' = [tr EXCEPT ![1] = flush(tr[1])]
    /\ posts' = posts \o Wire(tr[1], tr'[1])
    /\ last' = Result("timer", Null)
    /\ UNCHANGED <<lg, tel, hasWindow, calls, nEv, nSend, client, cl, nInit,
                   nCap, nFlush, nClose, nSet>>

OFetchSettles(o) ==
    /\ tr[1].isSending
    /\ tr' = [tr EXCEPT ![1] = flushSettled(tr[1], sendBatchResult(o))]
    /\ last' = Result("settled", o)
    /\ UNCHANGED <<lg, tel, hasWindow, calls, nEv, nSend, facadeVars>>

NextO ==
    \/ OEnqueue
    \/ OFlush
    \/ OTimer
    \/ \E o \in Outcomes : OFetchSettles(o)

SpecO == InitT /\ [][NextO]_vars

(* The events of a request body, and those of all requests in order. *)
EventsIn(post) ==
    IF "events" \in DOMAIN post.body THEN post.body.events ELSE <<post.body>>

RECURSIVE Flatten(_)
Flatten(ps) == IF ps = <<>> THEN <<>> ELSE EventsIn(Head(ps)) \o Flatten(Tail(ps))

Ascending(events) ==
    \A i, j \in 1..Len(events) : i < j => events[i].id < events[j].id

(* C29: when sends succeed, no event is in two flush requests and a sent   *)
(* event never reappears in the queue; within a batch the events are in    *)
(* enqueue order, and across batches no later-enqueued event is sent       *)
(* before an earlier-enqueued one that is still queued.                    *)
C29_SentOnceInOrder == Ascending(Flatten(posts) \o tr[1].queue)

C29_Witness ==
    /\ Len(posts) >= 2
    /\ \E k \in 1..Len(posts) : "events" \in DOMAIN posts[k].body
    /\ tr[1].queue # <<>>
    /\ last.op = "settled" /\ last.ret = "ok"

(* SpecV: a live Transport whose host only enqueues; the interval timer,   *)
(* where one was set, keeps firing and every fetch settles.                *)
NextV ==
    \/ OEnqueue
    \/ OTimer
    \/ \E o \in Outcomes : OFetchSettles(o)

SpecV ==
    /\ InitT
    /\ [][NextV]_vars
    /\ WF_vars(OTimer)
    /\ WF_vars(\E o \in Outcomes : OFetchSettles(o))

Queued(n) == \E i \in 1..Len(tr[1].queue) : tr[1].queue[i].id = n

Submitted(n) ==
    \E k \in 1..Len(posts) :
        \E i \in 1..Len(EventsIn(posts[k])) : EventsIn(posts[k])[i].id = n

(* C30: every event enqueued on a live Transport is eventually submitted  *)
(* in a send request without the host calling flush(), by the eager flush  *)
(* at 10 queued events or by the 5-second timer, in a browser-like host    *)
(* and in Node alike, given that timers fire and sends complete.           *)
C30_EventuallySubmitted ==
    \A n \in 1..MaxEventsO : Queued(n) ~> Submitted(n)

----------------------------------------------------------------------------
(* Properties of the active-span slot *)

(* C31: finishSpan(s) sets the active-span slot to empty if and only if s  *)
(* is the active span at that moment and otherwise leaves the slot as it   *)
(* is; so the finish of an earlier-started span of two overlapping trace() *)
(* calls never clears a slot that holds the later-started span.            *)
C31_SlotStep ==
    \A c \in SettledCalls :
        /\ tel'.currentSpan = IF tel.currentSpan = c.span THEN 0 ELSE tel.currentSpan
        /\ (tel'.currentSpan = 0 /\ tel.currentSpan # 0) <=> tel.currentSpan = c.span

C31_StaleFinishGuard == [][C31_SlotStep]_vars

(* Two trace calls overlapped and the earlier-started span has finished    *)
(* while the slot still holds the later-started one.                       *)
C31_Witness ==
    /\ last.op = "traced"
    /\ last.ret.span # 0
    /\ tel.currentSpan > last.ret.span
    /\ tel.spans[last.ret.span].finished
    /\ ~tel.spans[tel.currentSpan].finished

----------------------------------------------------------------------------
(* Nested traces: SpecN.  The host awaits each Statly.trace call; the      *)
(* operation of an outer call awaits `inner` Statly.trace calls of its own,*)
(* one after the other, and then returns or throws.                        *)

(* A trace call of SpecN: outer is the number of the call whose operation  *)
(* made it (0 for the host), inner the trace calls its operation has yet   *)
(* to make.                                                                *)
NestedCall(n, g, a, outer, inner) ==
    [n |-> n, op |-> "trace", g |-> g, pre |-> nEv, waiting |-> FALSE,
     pc |-> "import", span |-> 0, args |-> a, outer |-> outer, inner |-> inner]

(* The calls made by the operation of call n that have not settled *)
PendingInner(n) == {c \in calls : c.outer = n}

(* The host calls Statly.trace(a.name, operation, a.tags) with no other    *)
(* trace pending; the operation will await k inner traces.                 *)
NOuter(a, k) ==
    /\ tel.nTrace < MaxNestedTraces
    /\ client # 0
    /\ calls = {}
    /\ tel' = [tel EXCEPT !.nTrace = @ + 1]
    /\ calls' = {NestedCall(tel.nTrace + 1, client, a, 0, k)}
    /\ last' = Result("trace", "pending")
    /\ UNCHANGED <<lg, hasWindow, tr, client, cl, posts, nEv, nSend, nInit, nCap, nFlush,
                   nClose, nSet>>

(* The operation of an outer call, with no inner call pending, calls       *)
(* Statly.trace and awaits it.                                             *)
NInner(a) ==
    \E c \in calls :
        /\ c.pc = "operation"
        /\ c.inner > 0
        /\ PendingInner(c.n) = {}
        /\ tel' = [tel EXCEPT !.nTrace = @ + 1]
        /\ calls' = (calls \ {c}) \cup
                       {[c EXCEPT !.inner = @ - 1],
                        NestedCall(tel.nTrace + 1, client, a, c.n, 0)}
        /\ last' = Result("trace", "pending")
        /\ UNCHANGED <<lg, hasWindow, tr, client, cl, posts, nEv, nSend, nInit, nCap,
                       nFlush, nClose, nSet>>

(* An operation that has no inner call left to make or to await ends. *)
NSettles(o) ==
    /\ OperationSettles(o)
    /\ \A c \in calls \ calls' : c.inner = 0 /\ PendingInner(c.n) = {}

NextN ==
    \/ nInit < MaxInitsS /\ FInit([dsn |-> DsnGood])
    \/ \E a \in TraceArgs, k \in 0..MaxInner : NOuter(a, k)
    \/ \E a \in TraceArgs : NInner(a)
    \/ TraceStarts
    \/ \E o \in OpOutcomes : NSettles(o)

SpecN == Init /\ [][NextN]_vars

(* The inner call whose span is started in this step, with its outer call *)
StartedInner ==
    {c \in calls : c.pc = "import" /\ c.outer # 0 /\ c \notin calls'}

OuterOf(c) == CHOOSE o \in calls : o.n = c.outer

(* C32: within one logical trace without overlap, an outer trace() whose   *)
(* operation awaits two or more inner trace() calls one after the other,   *)
(* every span has the outer span's trace_id, every inner span has the      *)
(* outer span's span_id as parent_id, and all span_ids are distinct.       *)
C32_InnerStep ==
    /\ \A c \in StartedInner :
          LET inner == tel'.spans[Len(tel'.spans)]
              outer == tel.spans[OuterOf(c).span]
          IN  /\ inner.context.traceId = outer.context.traceId
              /\ inner.context.parentId = outer.context.spanId
    /\ \A i, j \in DOMAIN tel'.spans :
          i # j => tel'.spans[i].context.spanId # tel'.spans[j].context.spanId

C32_OneTrace == [][C32_InnerStep]_vars

----------------------------------------------------------------------------
(* The queue of an ObserveDestination: SpecG.  One destination (2) with a  *)
(* small batch size takes entries that pass every filter, while the host   *)
(* and the timer flush and the sends succeed or fail.                      *)

BatchSizes == {1, 2}

InitG ==
    /\ \E b \in BatchSizes :
          lg = [NoLoggers EXCEPT
                   !.dests = <<NewConsoleDestination(EmptyMap),
                               NewObserveDestination(DsnGood, [batchSize |-> b])>>]
    /\ hasWindow = FALSE
    /\ tr = <<>>
    /\ cl = <<>>
    /\ client = 0
    /\ calls = {}
    /\ posts = <<>>
    /\ nEv = 0 /\ nSend = 0
    /\ nInit = 0 /\ nCap = 0 /\ nFlush = 0 /\ nClose = 0 /\ nSet = 0
    /\ tel = NewTelemetry
    /\ last = Result("new", Null)

(* write(entry) with an entry of level error, which is never sampled out *)
GWrite ==
    /\ lg.nLog < MaxWritesG
    /\ LET entry == Entry("error", lg.nLog + 1)
       IN  /\ lg' = [lg EXCEPT !.nLog = @ + 1,
                               !.dests[2] = observeWrite(@, entry, 0)]
           /\ last' = Result("write", [dest |-> 2, entry |-> entry, draw |-> 0])
    /\ UNCHANGED <<hasWindow, tr, calls, nEv, nSend, facadeVars>>

(* The host calls flush(). *)
GFlush ==
    /\ lg.nOp < MaxFlushesG
    /\ lg' = [lg EXCEPT !.nOp = @ + 1, !.dests[2] = observeFlush(@)]
    /\ last' = Result("flush", Null)
    /\ UNCHANGED <<hasWindow, tr, calls, nEv, nSend, facadeVars>>

NextG ==
    \/ GWrite
    \/ GFlush
    \/ DTimer
    \/ \E ok \in BOOLEAN : DFetchSettles(ok)

SpecG == InitG /\ [][NextG]_vars

(* The last n elements of s *)
Newest(s, n) == IF Len(s) > n THEN SubSeq(s, Len(s) - n + 1, Len(s)) ELSE s

(* C33: when the send of an ObserveDestination flush fails, the flushed    *)
(* entries are put back in the queue ahead of the entries written while    *)
(* the send was in flight; when the combined length exceeds 3 x batchSize  *)
(* the entries dropped are the oldest ones; the in-flight flag is cleared. *)
C33_FailedStep ==
    (last'.op = "settle" /\ last'.ret = FALSE)
        => LET D == lg.dests[2]
           IN  /\ lg'.dests[2].queue =
                     Newest(D.batch \o D.queue, 3 * D.config.batchSize)
               /\ ~lg'.dests[2].isFlushing

C33_RequeueDropsOldest == [][C33_FailedStep]_vars

(* C34: in every reachable state of an ObserveDestination, under any       *)
(* interleaving of write, flush, timer ticks and send completions, the     *)
(* queue length is at most 3 x batchSize, also while a send is in flight   *)
(* and writes keep arriving.                                               *)
C34_QueueBounded ==
    Len(lg.dests[2].queue) <= 3 * lg.dests[2].config.batchSize

----------------------------------------------------------------------------
(* Entries after the call: SpecW.  One Logger with persistent context and  *)
(* tags, an ObserveDestination that queues and a destination that records; *)
(* the host logs with call-site context and calls the context and tag      *)
(* setters between the log calls.                                          *)

WConfig ==
    [dsn |-> DsnGood, context |-> [app |-> Str("shop"), user |-> Str("ann")],
     tags |-> [env |-> "prod"]]

CallContexts == {EmptyMap, [app |-> Str("cart")], [req |-> Str("r1")]}

InitW ==
    /\ lg = addDestination(constructLogger(NoLoggers, WConfig), 1,
                           NewCustomDestination("memory", "records"))
    /\ hasWindow = FALSE
    /\ tr = <<>>
    /\ cl = <<>>
    /\ client = 0
    /\ calls = {}
    /\ posts = <<>>
    /\ nEv = 0 /\ nSend = 0
    /\ nInit = 0 /\ nCap = 0 /\ nFlush = 0 /\ nClose = 0 /\ nSet = 0
    /\ tel = NewTelemetry
    /\ last = Result("new", Null)

(* logger.warn(message, context); warn is never sampled out *)
WLog(context) ==
    /\ lg.nLog < MaxLogsW
    /\ LET G == log(lg, 1, "warn", LogMessage, context, 0)
       IN  /\ lg' = [G EXCEPT !.nLog = @ + 1, !.thrown = FALSE]
           /\ last' = Result("warn", context)
    /\ UNCHANGED <<hasWindow, tr, calls, nEv, nSend, facadeVars>>

WClearContext == Setter(1, "clearContext", clearContext(lg.loggers[1]))

WClearTags ==
    /\ lg.nOp < MaxSetterCalls
    /\ lg' = [clearTags(lg, 1) EXCEPT !.nOp = @ + 1]
    /\ last' = Result("clearTags", 1)
    /\ UNCHANGED <<hasWindow, tr, calls, nEv, nSend, facadeVars>>

NextW ==
    \/ \E context \in CallContexts : WLog(context)
    \/ KSetContext(1)
    \/ KSetTag(1)
    \/ KSetTags(1)
    \/ WClearContext
    \/ WClearTags

SpecW == InitW /\ [][NextW]_vars

(* What a destination reads in an entry it holds, in the world G *)
Content(G, entry) == [entry EXCEPT !.tags = G.objects[entry.tags]]

(* The entries held in the world G: those passed to write, queued or       *)
(* recorded.                                                               *)
Held(G) ==
    {G.writes[k].entry : k \in 1..Len(G.writes)}
        \cup UNION {{G.dests[i].queue[k] : k \in 1..Len(G.dests[i].queue)} :
                       i \in {j \in 1..Len(G.dests) : "queue" \in DOMAIN G.dests[j]}}
        \cup UNION {{G.dests[i].received[k] : k \in 1..Len(G.dests[i].received)} :
                       i \in {j \in 1..Len(G.dests) : "received" \in DOMAIN G.dests[j]}}

(* C35: each entry handed to the destinations is a snapshot taken at the   *)
(* log call: its context is the persistent context merged with the         *)
(* call-site context, the call-site winning, its tags are the persistent   *)
(* tags at that moment, and later setContext, clearContext, setTag,        *)
(* setTags and clearTags calls do not change entries already written.      *)
C35_EntryStep ==
    /\ lg'.nLog = lg.nLog + 1 =>
          LET L == lg.loggers[1]
              context == last'.ret
          IN  \A e \in Held(lg') \ Held(lg) :
                /\ DOMAIN e.context.map = DOMAIN L.context \cup DOMAIN context
                /\ \A k \in DOMAIN context : e.context.map[k] = context[k]
                /\ \A k \in DOMAIN L.context \ DOMAIN context :
                      e.context.map[k] = L.context[k]
                /\ Content(lg', e) = Content(lg, [e EXCEPT !.tags = L.tags])
    /\ \A e \in Held(lg) : Content(lg', e) = Content(lg, e)

C35_EntryIsSnapshot == [][C35_EntryStep]_vars

----------------------------------------------------------------------------
(* Events after handoff: SpecX.  The host captures messages and traces     *)
(* operations, and between them calls the setters of the client and of the *)
(* spans its operations were given; nothing is sent.                       *)

(* span.setTag, span.setMetadata or span.setStatus on the span of index i *)
XSpanSet(i, name, S) ==
    /\ tel.nSpanSet < MaxSpanSets
    /\ i \in DOMAIN tel.spans
    /\ tel' = [tel EXCEPT !.spans[i] = S, !.nSpanSet = @ + 1]
    /\ last' = Result(name, i)
    /\ UNCHANGED <<lg, hasWindow, tr, calls, client, cl, posts, nEv, nSend, nInit, nCap,
                   nFlush, nClose, nSet>>

XSpanSetTag(i) == XSpanSet(i, "span.setTag", setTag(tel.spans[i], "late", "yes"))

XSpanSetMetadata(i) ==
    XSpanSet(i, "span.setMetadata", setMetadata(tel.spans[i], "rows", "3"))

XSpanSetStatus(i) == XSpanSet(i, "span.setStatus", setStatus(tel.spans[i], "error"))

(* The operation of SpecX sets a tag and returns. *)
XTraceArgs == [name |-> "work", tags |-> EmptyMap, setsTag |-> TRUE]
XOutcome == [kind |-> "returns", value |-> "42", isError |-> FALSE]

NextX ==
    \/ nInit < MaxInitsS /\ FInit([dsn |-> DsnGood])
    \/ client # 0 /\ HostCalls < MaxCallsX /\ FCaptureMessage("hello", "info")
    \/ client # 0 /\ HostCalls < MaxCallsX /\ FSetUser("alice")
    \/ client # 0 /\ HostCalls < MaxCallsX /\ FSetTag("v1")
    \/ client # 0 /\ HostCalls < MaxCallsX /\ FSetTags("v1")
    \/ client # 0 /\ HostCalls < MaxCallsX /\ FAddBreadcrumb
    \/ client # 0 /\ FTrace(XTraceArgs, XOutcome)
    \/ TraceStarts
    \/ OperationSettles(XOutcome)
    \/ \E i \in 1..MaxTraces : XSpanSetTag(i)
    \/ \E i \in 1..MaxTraces : XSpanSetMetadata(i)
    \/ \E i \in 1..MaxTraces : XSpanSetStatus(i)

SpecX == Init /\ [][NextX]_vars

(* What JSON.stringify reads in a queued event in the telemetry state Tl *)
EventContent(Tl, e) ==
    IF "span" \in DOMAIN e
    THEN [e EXCEPT !.span = [@ EXCEPT !.tags = TagsOf(Tl, e.span),
                                      !.metadata = MetadataOf(Tl, e.span)]]
    ELSE e

(* C36: once an event has been enqueued to the Transport, no later SDK     *)
(* call changes its content before it is sent: setTag, setTags, setUser    *)
(* and addBreadcrumb on the client, and setTag, setMetadata or setStatus   *)
(* on the span a span event was built from, leave the enqueued events as   *)
(* they were at handoff.                                                   *)
C36_QueuedStep ==
    \A g \in DOMAIN tr :
        \A k \in 1..Len(tr[g].queue) :
            /\ k <= Len(tr'[g].queue)
            /\ EventContent(tel', tr'[g].queue[k]) = EventContent(tel, tr[g].queue[k])

C36_ImmutableAfterHandoff == [][C36_QueuedStep]_vars

----------------------------------------------------------------------------
(* Breadcrumbs with data: SpecY.  The host adds breadcrumbs that carry a   *)
(* data object and captures messages.                                      *)

CrumbData == {[password |-> "hunter2"], [page |-> "/cart"]}

(* addBreadcrumb({category, message, level, data}) *)
YAddBreadcrumb(data) ==
    /\ HostCalls < MaxCalls
    /\ nSet < MaxSetCalls
    /\ nSet' = nSet + 1
    /\ client # 0
    /\ cl' = [cl EXCEPT ![client].breadcrumbs =
                 add(@, cl[client].options.maxBreadcrumbs,
                     [category |-> "auth", message |-> <<"User logged in">>,
                      level |-> "info", data |-> data])]
    /\ last' = Result("addBreadcrumb", data)
    /\ UNCHANGED <<client, tr, posts>>
    /\ UNCHANGED <<lg, tel, hasWindow, calls, nEv, nSend, nInit, nCap, nFlush, nClose>>

NextY ==
    \/ nInit < MaxInitsS /\ FInit([dsn |-> DsnGood])
    \/ \E data \in CrumbData : YAddBreadcrumb(data)
    \/ FAddBreadcrumb
    \/ \E lvl \in Levels : FCaptureMessage("hello", lvl)
    \/ \E v \in TagValues : FSetTag(v)

SpecY == Init /\ [][NextY]_vars

(* C37: every event the client hands to the Transport has had its          *)
(* breadcrumbs scrubbed: a breadcrumb added with a value under a sensitive *)
(* key (data.password) appears in the enqueued event with that value       *)
(* replaced by the redaction marker.                                       *)
C37_BreadcrumbsScrubbed ==
    \A g \in DOMAIN tr :
        \A k \in 1..Len(tr[g].queue) :
            LET items == tr[g].queue[k].breadcrumbs.items
            IN  \A j \in 1..Len(items) :
                    "data" \in DOMAIN items[j] =>
                        \A key \in DOMAIN items[j].data :
                            isSensitiveKey(key) => items[j].data[key] = REDACTED

----------------------------------------------------------------------------
(* Two runs that differ in their secrets: SpecZ.  Logger 1 and Logger 2    *)
(* are the Logger of two runs of one program, with scrubbing enabled and   *)
(* no allowlist; every call is made on both, with the same arguments but   *)
(* for the values under sensitive keys, SecretA in run 1 and SecretB in    *)
(* run 2.  Each Logger writes to a recording destination of its own.       *)

SecretA == "hunter2"
SecretB == "letmein"

(* The configurations of the two runs: secret is the value under the       *)
(* sensitive keys, tagged tells whether the tags hold one.                 *)
ZConfig(secret, tagged) ==
    [destinations |-> [console |-> [enabled |-> FALSE]],
     context |-> [app |-> Str("shop"), password |-> Str(secret)],
     tags |-> IF tagged THEN [env |-> "prod", token |-> secret]
              ELSE [env |-> "prod"]]

InitZ ==
    /\ \E tagged \in BOOLEAN :
          lg = addDestination(
                  addDestination(
                      constructLogger(constructLogger(NoLoggers, ZConfig(SecretA, tagged)),
                                      ZConfig(SecretB, tagged)),
                      1, NewCustomDestination("memory", "records")),
                  2, NewCustomDestination("memory", "records"))
    /\ hasWindow = FALSE
    /\ tr = <<>>
    /\ cl = <<>>
    /\ client = 0
    /\ calls = {}
    /\ posts = <<>>
    /\ nEv = 0 /\ nSend = 0
    /\ nInit = 0 /\ nCap = 0 /\ nFlush = 0 /\ nClose = 0 /\ nSet = 0
    /\ tel = NewTelemetry
    /\ last = Result("new", Null)

(* Call-site contexts of the two runs: with and without a sensitive key *)
ZContexts(secret) ==
    <<EmptyMap, [req |-> Str("r1")], [req |-> Str("r1"), token |-> Str(secret)]>>

(* logger.warn(message, context) in both runs *)
ZLog(c) ==
    /\ lg.nLog < MaxLogsW
    /\ LET G1 == log(lg, 1, "warn", LogMessage, ZContexts(SecretA)[c], 0)
           G2 == log(G1, 2, "warn", LogMessage, ZContexts(SecretB)[c], 0)
       IN  lg' = [G2 EXCEPT !.nLog = @ + 1, !.thrown = FALSE]
    /\ last' = Result("warn", c)
    /\ UNCHANGED <<hasWindow, tr, calls, nEv, nSend, facadeVars>>

(* logger.setContext({ secret }) in both runs *)
ZSetContext ==
    /\ lg.nOp < MaxSetterCalls
    /\ lg' = [lg EXCEPT !.nOp = @ + 1,
                        !.loggers[1] = setContext(@, [secret |-> Str(SecretA)]),
                        !.loggers[2] = setContext(@, [secret |-> Str(SecretB)])]
    /\ last' = Result("setContext", Null)
    /\ UNCHANGED <<hasWindow, tr, calls, nEv, nSend, facadeVars>>

(* logger.setTag(key, value) in both runs; the value is the secret when    *)
(* the key is sensitive.                                                   *)
ZSetTag(key) ==
    /\ lg.nOp < MaxSetterCalls
    /\ LET a == IF isSensitiveKey(key) THEN SecretA ELSE "eu"
           b == IF isSensitiveKey(key) THEN SecretB ELSE "eu"
       IN  lg' = [loggerSetTag(loggerSetTag(lg, 1, key, a), 2, key, b)
                     EXCEPT !.nOp = @ + 1]
    /\ last' = Result("setTag", key)
    /\ UNCHANGED <<hasWindow, tr, calls, nEv, nSend, facadeVars>>

NextZ ==
    \/ \E c \in 1..3 : ZLog(c)
    \/ ZSetContext
    \/ \E key \in {"region", "api_key"} : ZSetTag(key)

SpecZ == InitZ /\ [][NextZ]_vars

(* What the recording destination of Logger g was handed, as it reads it,  *)
(* without the session id, which generateId() draws at random in each run. *)
HandedTo(g) ==
    LET received == lg.dests[lg.loggers[g].destinations[1]].received
    IN  [k \in 1..Len(received) |->
            [Content(lg, received[k]) EXCEPT !.sessionId = Null]]

(* C38: with scrubbing enabled and no allowlist, what a Logger hands to    *)
(* its destinations does not depend on secret values: two runs of the same *)
(* logger calls that differ only in the values under sensitive keys in     *)
(* persistent context, call-site context or tags hand identical entries to *)
(* every destination.                                                      *)
C38_SecretsDoNotShow == HandedTo(1) = HandedTo(2)

----------------------------------------------------------------------------
(* close() not awaited: SpecJ.  The host initializes, captures, calls      *)
(* close() and, before the promise of close() has resolved, calls init()   *)
(* again; it makes no other lifecycle call.                                *)

ClosePending == \E c \in calls : c.op = "close"

NextJ ==
    \/ nInit = 0 /\ FInit([dsn |-> DsnGood])
    \/ nInit = 1 /\ ClosePending /\ FInit([dsn |-> DsnGood])
    \/ nInit = 1 /\ nClose = 0 /\ client # 0 /\ FClose
    \/ client # 0 /\ FCaptureMessage("hello", "info")
    \/ CloseDestroys
    \/ CloseReturns
    \/ Timer
    \/ \E o \in Outcomes : FetchSettles(o)

SpecJ == Init /\ [][NextJ]_vars

(* C39: the last lifecycle call issued decides the SDK's state even when   *)
(* close() is not awaited: when the host has called close() and then       *)
(* init() before the promise of close() resolved, then once everything has *)
(* settled the SDK is initialized with a live client.                      *)
C39_LastCallDecides ==
    (nInit = 2 /\ calls = {}) => (client # 0 /\ cl[client].initialized)

----------------------------------------------------------------------------
(* FileDestination: SpecF.  The destination is lg.dests[1]; its field file *)
(* is the content of the log file, fs tells whether this.fs is set, init   *)
(* where initFileSystem() is; writePromise is a chain of writeBuffer()     *)
(* calls, of which scheduled have been chained and settled have ended,     *)
(* running tells where the one in progress is and data what it appends.    *)

MaxBufferedLines == 100
MaxBufferedBytes == 65536

(* new FileDestination(config) in a Node host (node) or elsewhere: the     *)
(* constructor calls initFileSystem(), which runs up to its first await.   *)
NewFileDestination(config, node) ==
    [name |-> "file",
     config |-> [enabled |-> node /\ Get(config, "enabled", TRUE) # FALSE,
                 format |-> Get(config, "format", "json"),
                 levels |-> Get(config, "levels", EXTENDED_LEVELS)],
     minLevel |-> 0,
     buffer |-> <<>>,
     currentSize |-> 0,
     fs |-> FALSE,
     init |-> IF node THEN "import" ELSE "done",
     scheduled |-> 0,
     settled |-> 0,
     running |-> "idle",
     data |-> <<>>,
     file |-> <<>>]

(* initFileSystem() after the imports: this.fs is set, mkdir is awaited *)
fileSystemLoaded(D) == [D EXCEPT !.fs = TRUE, !.init = "mkdir"]

(* formatJson(entry) and the newline *)
formatJson(entry) == <<"json", entry, "\n">>

(* scheduleWrite(): one more writeBuffer() at the end of the chain *)
scheduleWrite(D) == [D EXCEPT !.scheduled = @ + 1]

(* FileDestination.write(entry) with a line of the given length *)
fileWrite(D, entry, length) ==
    IF ~D.config.enabled \/ ~D.fs THEN D
    ELSE IF entry.level \notin D.config.levels THEN D
    ELSE IF LOG_LEVELS[entry.level] < D.minLevel THEN D
    ELSE LET B == [D EXCEPT !.buffer = Append(@, formatJson(entry)),
                            !.currentSize = @ + length + 1]
         IN  IF Len(B.buffer) >= MaxBufferedLines \/ B.currentSize >= MaxBufferedBytes
             THEN scheduleWrite(B) ELSE B

(* writeBuffer() up to its first await: it returns at once with no fs or   *)
(* an empty buffer, else it awaits checkRotation().                        *)
writeBufferStarts(D) ==
    IF ~D.fs \/ D.buffer = <<>> THEN [D EXCEPT !.settled = @ + 1]
    ELSE [D EXCEPT !.running = "rotation"]

(* ... after checkRotation() (the file is below its maximum size): the     *)
(* buffer is taken and appendFile awaited.                                 *)
writeBufferJoins(D) ==
    [D EXCEPT !.data = D.buffer, !.buffer = <<>>, !.currentSize = 0,
              !.running = "append"]

(* ... after appendFile, which succeeded *)
writeBufferEnds(D) ==
    [D EXCEPT !.file = @ \o D.data, !.data = <<>>, !.running = "idle",
              !.settled = @ + 1]

FileConfigs == {EmptyMap, [levels |-> {"warn", "error", "audit"}]}
FileLevels == {"debug", "warn"}
LineLengths == {80, 40000}

InitF ==
    /\ \E config \in FileConfigs :
          lg = [NoLoggers EXCEPT !.dests = <<NewFileDestination(config, TRUE)>>]
    /\ hasWindow = FALSE
    /\ tr = <<>>
    /\ cl = <<>>
    /\ client = 0
    /\ calls = {}
    /\ posts = <<>>
    /\ nEv = 0 /\ nSend = 0
    /\ nInit = 0 /\ nCap = 0 /\ nFlush = 0 /\ nClose = 0 /\ nSet = 0
    /\ tel = NewTelemetry
    /\ last = Result("new", Null)

(* The imports of initFileSystem() resolve. *)
FFsLoaded ==
    /\ lg.dests[1].init = "import"
    /\ lg' = [lg EXCEPT !.dests[1] = fileSystemLoaded(@)]
    /\ last' = Result("internal", Null)
    /\ UNCHANGED <<hasWindow, tr, calls, nEv, nSend, facadeVars>>

(* mkdir resolves: initFileSystem() ends. *)
FMkdirSettles ==
    /\ lg.dests[1].init = "mkdir"
    /\ lg' = [lg EXCEPT !.dests[1].init = "done"]
    /\ last' = Result("internal", Null)
    /\ UNCHANGED <<hasWindow, tr, calls, nEv, nSend, facadeVars>>

(* The host calls write(entry); lg.writes keeps the entries passed. *)
FWrite(level, length) ==
    /\ lg.nLog < MaxWritesF
    /\ LET entry == Entry(level, lg.nLog + 1)
       IN  /\ lg' = [lg EXCEPT !.nLog = @ + 1,
                               !.writes = Append(@, [dest |-> 1, entry |-> entry]),
                               !.dests[1] = fileWrite(@, entry, length)]
           /\ last' = Result("write", [dest |-> 1, entry |-> entry, draw |-> 0])
    /\ UNCHANGED <<hasWindow, tr, calls, nEv, nSend, facadeVars>>

(* The host calls flush(): scheduleWrite(), then await this.writePromise,  *)
(* the chain as it is then.  pre is the number of write calls made before. *)
FFileFlush ==
    /\ lg.nOp < MaxFlushesF
    /\ lg' = [lg EXCEPT !.nOp = @ + 1, !.dests[1] = scheduleWrite(@)]
    /\ calls' = calls \cup
                   {[n |-> lg.nOp + 1, op |-> "fileFlush", g |-> 0,
                     pre |-> Len(lg.writes), waiting |-> TRUE, pc |-> "await",
                     ticket |-> lg.dests[1].scheduled + 1]}
    /\ last' = Result("flush", "pending")
    /\ UNCHANGED <<hasWindow, tr, nEv, nSend, client, cl, posts, nInit, nCap, nFlush,
                   nClose, nSet, tel>>

(* The next writeBuffer() of the chain starts when the one before it has   *)
(* ended.                                                                  *)
FWriteBufferStarts ==
    /\ lg.dests[1].running = "idle"
    /\ lg.dests[1].settled < lg.dests[1].scheduled
    /\ lg' = [lg EXCEPT !.dests[1] = writeBufferStarts(@)]
    /\ last' = Result("internal", Null)
    /\ UNCHANGED <<hasWindow, tr, calls, nEv, nSend, facadeVars>>

FRotationChecked ==
    /\ lg.dests[1].running = "rotation"
    /\ lg' = [lg EXCEPT !.dests[1] = writeBufferJoins(@)]
    /\ last' = Result("internal", Null)
    /\ UNCHANGED <<hasWindow, tr, calls, nEv, nSend, facadeVars>>

FAppendSettles ==
    /\ lg.dests[1].running = "append"
    /\ lg' = [lg EXCEPT !.dests[1] = writeBufferEnds(@)]
    /\ last' = Result("internal", Null)
    /\ UNCHANGED <<hasWindow, tr, calls, nEv, nSend, facadeVars>>

(* The promise of a flush() call resolves when the chain it awaits has     *)
(* ended.                                                                  *)
FFileFlushResolves ==
    \E c \in calls :
        /\ c.op = "fileFlush"
        /\ lg.dests[1].settled >= c.ticket
        /\ calls' = calls \ {c}
        /\ last' = Result("fileFlushed", [pre |-> c.pre])
        /\ UNCHANGED <<lg, hasWindow, tr, nEv, nSend, client, cl, posts, nInit, nCap,
                       nFlush, nClose, nSet, tel>>

NextF ==
    \/ FFsLoaded
    \/ FMkdirSettles
    \/ \E level \in FileLevels, length \in LineLengths : FWrite(level, length)
    \/ FFileFlush
    \/ FWriteBufferStarts
    \/ FRotationChecked
    \/ FAppendSettles
    \/ FFileFlushResolves

SpecF == InitF /\ [][NextF]_vars

(* The entries of the lines of the file, in order *)
FileEntries == [k \in 1..Len(lg.dests[1].file) |-> lg.dests[1].file[k][2]]

(* C40: in a host where file I/O is available, every entry passed to an    *)
(* enabled FileDestination.write that passes its level filters, entries    *)
(* written immediately after the construction included, has been appended  *)
(* to the file once a subsequent flush() resolves, and the lines are in    *)
(* the file in write order.                                                *)
C40_FlushedInOrder ==
    LET D == lg.dests[1]
    IN  /\ last.op = "fileFlushed" =>
              \A k \in 1..last.ret.pre :
                  LET entry == lg.writes[k].entry
                  IN  (/\ D.config.enabled
                       /\ entry.level \in D.config.levels
                       /\ LOG_LEVELS[entry.level] >= D.minLevel)
                          => InSeq(FileEntries, entry)
        /\ \A i, j \in 1..Len(FileEntries) :
              i < j => FileEntries[i].timestamp < FileEntries[j].timestamp

============================================================================
